---- MODULE Spec2Model ----
(***************************************************************************)
(* Two-step authentication session workflow of the case/task management    *)
(* front end: the session guards (middleware/auth.ts), the authentication  *)
(* remote client (services/authenticationService.ts) and the auth routes   *)
(* (routes/auth.ts).                                                       *)
(*                                                                         *)
(* JavaScript values are modelled as follows.                              *)
(*   - an optional value (a possibly undefined property) is a set with at  *)
(*     most one element: None is undefined, Some(v) is the value v;        *)
(*   - strings that the code trims or tests for blankness (emails,         *)
(*     passwords, tokens) are sequences of one-character strings;          *)
(*   - message texts, paths and view names are TLA+ strings.               *)
(***************************************************************************)
EXTENDS Integers, Sequences, FiniteSets, TLC

VARIABLES hasSession, session, hits, last, sessionStore, inflight

vars == <<hasSession, session, hits, last, sessionStore, inflight>>

----------------------------------------------------------------------------
(* Optional values and JavaScript truthiness                               *)

None == {}

Some(v) == {v}

The(o) == CHOOSE v \in o : TRUE

\* !x is false for a defined, non-empty string
Truthy(o) == o # None /\ o # Some(<<>>)

\* a || b on message texts: undefined and '' fall through to b
OrText(o, d) == IF o = None \/ o = Some("") THEN d ELSE The(o)

\* a boolean property used as a condition
IsTrue(o) == o = Some(TRUE)

RECURSIVE TrimStart(_)
TrimStart(str) ==
  IF str # <<>> /\ Head(str) = " " THEN TrimStart(Tail(str)) ELSE str

RECURSIVE TrimEnd(_)
TrimEnd(str) ==
  IF str # <<>> /\ str[Len(str)] = " "
    THEN TrimEnd(SubSeq(str, 1, Len(str) - 1))
    ELSE str

Trim_OneSpace(str) ==
  IF str # <<>> /\ Head(str) = " " THEN Tail(str) ELSE str

\* String.prototype.trim
Trim(str) == TrimEnd(TrimStart(str))

----------------------------------------------------------------------------
(* Input domains                                                           *)

UserEmail == <<"u", "@", "x">>

PaddedEmail == <<" ", "v", "@", "x">>

BlankStr == <<" ">>

\* req.body.email
BodyEmails == {None, Some(<<>>), Some(BlankStr), Some(UserEmail), Some(PaddedEmail)}

GoodPassword == <<"p", "w">>

\* req.body.password
BodyPasswords == {None, Some(<<>>), Some(BlankStr), Some(GoodPassword)}

TokenA == <<"j", "w", "t">>

\* token property of the backend's authenticate response
BackendTokens == {None, Some(<<>>), Some(BlankStr), Some(TokenA)}

----------------------------------------------------------------------------
(* Texts                                                                   *)

LoginPath == "/auth/login"

PasswordPath == "/auth/password"

TasksPath == "/tasks"

TooManyAttempts == "Too many attempts. Please try again later."

InvalidPassword == "Invalid password. Please try again."

GenericError == "An error occurred. Please try again."

InvalidEmail == "Invalid email address"

ServiceFallback == "An error occurred"

NetworkError == "Network error: Unable to reach authentication server"

EmailRequired == "Email is required"

PasswordRequired == "Password is required"

TokenRequired == "Token is required"

SessionTypeError == "Cannot set properties of undefined"

BackendMessage == "Rate limit exceeded. Please try again later."

BackendErrorText == "Invalid email format"

EmailIsValid == "Email is valid"

----------------------------------------------------------------------------
(* Session data                                                            *)

\* A session object with none of the application's keys set
EmptySession == [tempEmail |-> None, token |-> None, email |-> None, errors |-> None]

\* One pending error entry
ErrorEntry(text, href) == [text |-> text, href |-> href]

----------------------------------------------------------------------------
(* Responses, log entries, results of a handler                            *)

Redirect(path) ==
  [kind |-> "redirect", target |-> path, errors |-> <<>>, email |-> None]

Render(view, errors, email) ==
  [kind |-> "render", target |-> view, errors |-> errors, email |-> email]

Log(level, msg) == [level |-> level, msg |-> msg]

\* What one middleware or handler did: the session it leaves, the responses
\* it issued, the backend calls it made, what it logged, whether it called
\* next(), and the error of a rejected promise nobody handles.
Result(has, s, responses, calls, logs, next, unhandled) ==
  [has |-> has, s |-> s, responses |-> responses, calls |-> calls,
   logs |-> logs, next |-> next, unhandled |-> unhandled]

----------------------------------------------------------------------------
(* Input sanitizer: middleware/security.ts                                 *)

\* Case folding of the i flag, on the letters the inputs use
Lower(c) ==
  CASE c = "A" -> "a" [] c = "B" -> "b" [] c = "C" -> "c" [] c = "D" -> "d"
    [] c = "E" -> "e" [] c = "F" -> "f" [] c = "G" -> "g" [] c = "H" -> "h"
    [] c = "I" -> "i" [] c = "J" -> "j" [] c = "K" -> "k" [] c = "L" -> "l"
    [] c = "M" -> "m" [] c = "N" -> "n" [] c = "O" -> "o" [] c = "P" -> "p"
    [] c = "Q" -> "q" [] c = "R" -> "r" [] c = "S" -> "s" [] c = "T" -> "t"
    [] c = "U" -> "u" [] c = "V" -> "v" [] c = "W" -> "w" [] c = "X" -> "x"
    [] c = "Y" -> "y" [] c = "Z" -> "z"
    [] OTHER -> c

\* \w
WordChars ==
  {"a", "b", "c", "d", "e", "f", "g", "h", "i", "j", "k", "l", "m", "n", "o",
   "p", "q", "r", "s", "t", "u", "v", "w", "x", "y", "z", "A", "B", "C", "D",
   "E", "F", "G", "H", "I", "J", "K", "L", "M", "N", "O", "P", "Q", "R", "S",
   "T", "U", "V", "W", "X", "Y", "Z", "0", "1", "2", "3", "4", "5", "6", "7",
   "8", "9", "_"}

\* The literal w (lower case) matches s at position i, ignoring case
MatchesAt(s, i, w) ==
  /\ i + Len(w) - 1 <= Len(s)
  /\ \A k \in 1..Len(w) : Lower(s[i + k - 1]) = w[k]

JavascriptColon == <<"j", "a", "v", "a", "s", "c", "r", "i", "p", "t", ":">>

RemoveBrackets_OnlyOpen(s) == SelectSeq(s, LAMBDA c : c # "<")

\* .replace(/[<>]/g, '')
RemoveBrackets(s) == SelectSeq(s, LAMBDA c : c \notin {"<", ">"})

\* .replace(/w/gi, '') for a literal w: one scan from position i, each match
\* deleted and the scan resumed after it
RECURSIVE RemoveLiteral(_, _, _)
RemoveLiteral(s, i, w) ==
  IF i > Len(s) THEN <<>>
  ELSE IF MatchesAt(s, i, w) THEN RemoveLiteral(s, i + Len(w), w)
  ELSE <<s[i]>> \o RemoveLiteral(s, i + 1, w)

\* Length of the run of \w characters of s that starts at position i
RECURSIVE WordRun(_, _)
WordRun(s, i) ==
  IF i <= Len(s) /\ s[i] \in WordChars THEN 1 + WordRun(s, i + 1) ELSE 0

\* Length of the match of /on\w+=/i at position i of s, 0 if there is none:
\* '=' is not a \w character, so \w+ takes the whole run and '=' must follow
EventHandlerLen(s, i) ==
  IF MatchesAt(s, i, <<"o", "n">>)
    THEN LET n == WordRun(s, i + 2)
         IN IF n >= 1 /\ i + 2 + n <= Len(s) /\ s[i + 2 + n] = "="
              THEN n + 3 ELSE 0
    ELSE 0

\* .replace(/on\w+=/gi, '')
RECURSIVE RemoveEventHandlers(_, _)
RemoveEventHandlers(s, i) ==
  IF i > Len(s) THEN <<>>
  ELSE IF EventHandlerLen(s, i) > 0
    THEN RemoveEventHandlers(s, i + EventHandlerLen(s, i))
  ELSE <<s[i]>> \o RemoveEventHandlers(s, i + 1)

sanitizeInput(input) ==
  Trim(RemoveEventHandlers(RemoveLiteral(RemoveBrackets(input), 1, JavascriptColon), 1))

----------------------------------------------------------------------------
(* Suspicious activity classifier: middleware/security.ts                  *)

\* The parts of a request the classifier reads. query and body are undefined
\* (None) or an object, given as the sequence of its <<key, value>> entries
\* with string values.
Req(path, query, body) == [path |-> path, query |-> query, body |-> body]

NoReq == Req(<<>>, None, None)

\* JSON.stringify of a string, without the enclosing quotes: the quote and
\* the backslash are escaped
RECURSIVE Escape(_)
Escape(s) ==
  IF s = <<>> THEN <<>>
  ELSE (IF Head(s) \in {"\"", "\\"} THEN <<"\\", Head(s)>> ELSE <<Head(s)>>)
       \o Escape(Tail(s))

RECURSIVE StringifyEntries(_)
StringifyEntries(entries) ==
  IF entries = <<>> THEN <<>>
  ELSE <<"\"">> \o Escape(Head(entries)[1]) \o <<"\"", ":", "\"">>
       \o Escape(Head(entries)[2]) \o <<"\"">>
       \o (IF Tail(entries) = <<>> THEN <<>> ELSE <<",">>)
       \o StringifyEntries(Tail(entries))

\* `${JSON.stringify(x)}`: undefined is interpolated as 'undefined'
Stringify(o) ==
  IF o = None THEN <<"u", "n", "d", "e", "f", "i", "n", "e", "d">>
  ELSE <<"{">> \o StringifyEntries(The(o)) \o <<"}">>

\* `${req.path}${JSON.stringify(req.query)}${JSON.stringify(req.body)}`
CheckString(r) == r.path \o Stringify(r.query) \o Stringify(r.body)

\* /(\.\.|\/etc\/|\/bin\/)/i
PathTraversal == {<<".", ".">>, <<"/", "e", "t", "c", "/">>, <<"/", "b", "i", "n", "/">>}

\* /(union|select|insert|update|delete|drop|exec|script)/i
SqlInjection ==
  {<<"u", "n", "i", "o", "n">>,
   <<"s", "e", "l", "e", "c", "t">>,
   <<"i", "n", "s", "e", "r", "t">>,
   <<"u", "p", "d", "a", "t", "e">>,
   <<"d", "e", "l", "e", "t", "e">>,
   <<"d", "r", "o", "p">>, <<"e", "x", "e", "c">>,
   <<"s", "c", "r", "i", "p", "t">>}

\* /(<script|javascript:|onerror=|onload=)/i
XssAttempts ==
  {<<"<", "s", "c", "r", "i", "p", "t">>, JavascriptColon,
   <<"o", "n", "e", "r", "r", "o", "r", "=">>,
   <<"o", "n", "l", "o", "a", "d", "=">>}

suspiciousPatterns == <<PathTraversal, SqlInjection, XssAttempts>>

PatternTest_CaseSensitive(pattern, s) ==
  \E w \in pattern : \E i \in 1..Len(s) :
    /\ i + Len(w) - 1 <= Len(s)
    /\ \A k \in 1..Len(w) : s[i + k - 1] = w[k]

\* pattern.test(checkString) for an alternation of literals with the i flag
PatternTest(pattern, s) ==
  \E w \in pattern : \E i \in 1..Len(s) : MatchesAt(s, i, w)

\* res.status(code).render(view, {message})
RenderStatus(code, view, message) ==
  [kind |-> "render", status |-> code, target |-> view, message |-> message]

Forbidden == RenderStatus(403, "error", "Forbidden: Suspicious activity detected")

\* pattern.source of the three patterns
patternSource ==
  << "(\\.\\.|\\/etc\\/|\\/bin\\/)",
     "(union|select|insert|update|delete|drop|exec|script)",
     "(<script|javascript:|onerror=|onload=)" >>

\* logger.warn('Suspicious activity detected', {pattern: pattern.source, ...})
LogPattern(level, msg, pattern) == [level |-> level, msg |-> msg, pattern |-> pattern]

\* The patterns that match the check string, by position in suspiciousPatterns
Matching(r) ==
  { n \in DOMAIN suspiciousPatterns : PatternTest(suspiciousPatterns[n], CheckString(r)) }

\* detectSuspiciousActivity: the for loop tests the patterns in order; the
\* first one that matches logs its source, answers 403 and returns; next()
\* is reached only when none matches
detectSuspiciousActivity(r) ==
  IF Matching(r) # {}
    THEN LET first == CHOOSE n \in Matching(r) : \A m \in Matching(r) : n <= m
         IN [responses |-> <<Forbidden>>,
             logs |-> <<LogPattern("warn", "Suspicious activity detected",
                                   patternSource[first])>>,
             next |-> FALSE]
    ELSE [responses |-> <<>>, logs |-> <<>>, next |-> TRUE]

----------------------------------------------------------------------------
(* Content type validation, security headers, request logger:              *)
(* middleware/security.ts                                                  *)

\* What these middleware read of a request: method, path, Content-Type
\* header, client address, User-Agent header, and the headers already set on
\* the response when the middleware runs
HttpReq(method, path, contentType, ip, userAgent, resHeaders) ==
  [method |-> method, path |-> path, contentType |-> contentType, ip |-> ip,
   userAgent |-> userAgent, resHeaders |-> resHeaders]

\* String.prototype.includes
Includes(s, w) ==
  \E i \in 1..(Len(s) - Len(w) + 1) : SubSeq(s, i, i + Len(w) - 1) = w

ApplicationJson == <<"a", "p", "p", "l", "i", "c", "a", "t", "i", "o", "n", "/", "j", "s", "o", "n">>

FormUrlencoded ==
  <<"a", "p", "p", "l", "i", "c", "a", "t", "i", "o", "n", "/", "x", "-",
    "w", "w", "w", "-", "f", "o", "r", "m", "-", "u", "r", "l", "e", "n",
    "c", "o", "d", "e", "d">>

MultipartFormData ==
  <<"m", "u", "l", "t", "i", "p", "a", "r", "t", "/", "f", "o", "r", "m", "-", "d", "a", "t", "a">>

validTypes == {ApplicationJson, FormUrlencoded, MultipartFormData}

\* res.status(code).json({error})
JsonStatus(code, error) == [kind |-> "json", status |-> code, error |-> error]

validateContentType_Lenient(r) ==
  IF r.method \in {"POST", "PUT", "PATCH"} /\ ~Truthy(r.contentType)
    THEN [responses |-> <<JsonStatus(400, "Content-Type header is required")>>,
          logs |-> <<Log("warn", "Request missing content-type header")>>,
          next |-> FALSE]
    ELSE [responses |-> <<>>, logs |-> <<>>, next |-> TRUE]

validateContentType(r) ==
  IF r.method \in {"POST", "PUT", "PATCH"}
    THEN IF ~Truthy(r.contentType)
           THEN [responses |-> <<JsonStatus(400, "Content-Type header is required")>>,
                 logs |-> <<Log("warn", "Request missing content-type header")>>,
                 next |-> FALSE]
           ELSE IF ~\E type \in validTypes : Includes(The(r.contentType), type)
             THEN [responses |-> <<JsonStatus(415, "Unsupported Media Type")>>,
                   logs |-> <<Log("warn", "Invalid content-type")>>,
                   next |-> FALSE]
             ELSE [responses |-> <<>>, logs |-> <<>>, next |-> TRUE]
    ELSE [responses |-> <<>>, logs |-> <<>>, next |-> TRUE]

\* res.setHeader(name, value): the value replaces one set before
SetHeader(headers, name, value) ==
  { h \in headers : h[1] # name } \cup {<<name, value>>}

securityHeaders_NoPermissions(r) ==
  [headers |->
     SetHeader(SetHeader(SetHeader(SetHeader(r.resHeaders,
       "X-Frame-Options", "DENY"),
       "X-Content-Type-Options", "nosniff"),
       "X-XSS-Protection", "1; mode=block"),
       "Referrer-Policy", "strict-origin-when-cross-origin"),
   responses |-> <<>>, next |-> TRUE]

securityHeaders(r) ==
  [headers |->
     SetHeader(SetHeader(SetHeader(SetHeader(SetHeader(r.resHeaders,
       "X-Frame-Options", "DENY"),
       "X-Content-Type-Options", "nosniff"),
       "X-XSS-Protection", "1; mode=block"),
       "Referrer-Policy", "strict-origin-when-cross-origin"),
       "Permissions-Policy", "geolocation=(), microphone=(), camera=()"),
   responses |-> <<>>, next |-> TRUE]

\* requestLogger: registers one listener for the response's finish event and
\* calls next()
requestLogger(r) == [listeners |-> 1, responses |-> <<>>, next |-> TRUE]

\* The entry the finish listener writes
HttpLog(r, statusCode, duration) ==
  [level |-> "info", msg |-> "HTTP Request", method |-> r.method, path |-> r.path,
   statusCode |-> statusCode, duration |-> duration, ip |-> r.ip,
   userAgent |-> r.userAgent]

----------------------------------------------------------------------------
(* Session guards: middleware/auth.ts                                      *)

\* req.session?.token
SessionToken(has, s) == IF has THEN s.token ELSE None

\* req.session?.tempEmail
SessionTempEmail(has, s) == IF has THEN s.tempEmail ELSE None

\* req.session?.errors || []
SessionErrors(has, s) ==
  IF has /\ s.errors # None THEN The(s.errors) ELSE <<>>

requireAuth_NoGuard(has, s) ==
  Result(has, s, <<>>, <<>>, <<Log("info", "Authenticated request")>>, TRUE, None)

requireAuth(has, s) ==
  IF ~Truthy(SessionToken(has, s))
    THEN Result(has, s, <<Redirect(LoginPath)>>, <<>>,
                <<Log("info", "Unauthenticated access attempt")>>, FALSE, None)
    ELSE Result(has, s, <<>>, <<>>,
                <<Log("info", "Authenticated request")>>, TRUE, None)

redirectIfAuthenticated_NoGuard(has, s) ==
  Result(has, s, <<>>, <<>>, <<>>, TRUE, None)

redirectIfAuthenticated(has, s) ==
  IF Truthy(SessionToken(has, s))
    THEN Result(has, s, <<Redirect(TasksPath)>>, <<>>,
                <<Log("info", "Authenticated user accessing auth page, redirecting")>>,
                FALSE, None)
    ELSE Result(has, s, <<>>, <<>>, <<>>, TRUE, None)

clearAuth_KeepsEmail(has, s) ==
  IF has
    THEN Result(has, [s EXCEPT !.token = None], <<>>, <<>>, <<>>, TRUE, None)
    ELSE Result(has, s, <<>>, <<>>, <<>>, TRUE, None)

clearAuth(has, s) ==
  IF has
    THEN Result(has, [s EXCEPT !.token = None, !.email = None],
                <<>>, <<>>, <<>>, TRUE, None)
    ELSE Result(has, s, <<>>, <<>>, <<>>, TRUE, None)

----------------------------------------------------------------------------
(* Backend answers and the authentication remote client:                   *)
(* services/authenticationService.ts                                       *)

TooManyRequests == 429

Unauthorized == 401

\* response.data / error.response.data
Data(success, emailValidated, valid, token, message, error) ==
  [success |-> success, emailValidated |-> emailValidated, valid |-> valid,
   token |-> token, message |-> message, error |-> error]

NoData == Data(None, None, None, None, None, None)

\* A thrown error: AuthenticationError carries statusCode and retryAfter,
\* a plain Error carries neither.
Err(name, message, statusCode, retryAfter) ==
  [name |-> name, message |-> message, statusCode |-> statusCode,
   retryAfter |-> retryAfter]

PlainError(message) == Err("Error", Some(message), None, None)

\* The error axios rejects with when there is neither response nor request
AxiosSetupError == Err("AxiosError", Some("Network error"), None, None)

TypeError == Err("TypeError", Some(SessionTypeError), None, None)

NoError == Err("none", None, None, None)

\* What axios.post settles with: "ok" resolves with data; "response" rejects
\* with error.response set; "noresponse" rejects with only error.request set;
\* "other" rejects with neither, and error is then the rejected error object.
Outcome(kind, status, data, retryAfter, error) ==
  [kind |-> kind, status |-> status, data |-> data, retryAfter |-> retryAfter,
   error |-> error]

NoOutcome == Outcome("none", 0, NoData, None, NoError)

ErrorBodies ==
  { NoData,
    Data(None, None, None, None, Some(""), None),
    Data(None, None, None, None, Some(BackendMessage), None),
    Data(None, None, None, None, None, Some(BackendErrorText)) }

FailedOutcomes ==
  { Outcome("response", st, d, None, NoError) :
      st \in {Unauthorized, TooManyRequests, 500}, d \in ErrorBodies }
  \cup { Outcome("response", TooManyRequests, d, Some("900"), NoError) : d \in ErrorBodies }
  \cup { Outcome("noresponse", 0, NoData, None, NoError),
         Outcome("other", 0, NoData, None, AxiosSetupError) }

ValidateEmailOutcomes ==
  { Outcome("ok", 200, d, None, NoError) :
      d \in { Data(Some(TRUE), Some(TRUE), None, None, Some(EmailIsValid), None),
              Data(Some(TRUE), Some(FALSE), None, None, None, None),
              Data(None, None, Some(TRUE), None, Some(EmailIsValid), None),
              Data(None, None, Some(FALSE), None, Some(InvalidEmail), None) } }
  \cup FailedOutcomes

AuthenticateOutcomes ==
  { Outcome("ok", 200, Data(None, None, None, t, Some("Authentication successful"), None), None, NoError) :
      t \in BackendTokens }
  \cup FailedOutcomes

LogoutOutcomes ==
  { Outcome("ok", 200, Data(None, None, None, None, Some("Logout successful"), None), None, NoError) }
  \cup FailedOutcomes

Call(endpoint, email, password, token) ==
  [endpoint |-> endpoint, email |-> email, password |-> password, token |-> token]

\* What a service method settles with
NotSettled == [kind |-> "none", data |-> NoData, err |-> NoError, calls |-> <<>>]

Returned(data, calls) == [kind |-> "return", data |-> data, err |-> NoError, calls |-> calls]

Thrown(err, calls) == [kind |-> "throw", data |-> NoData, err |-> err, calls |-> calls]

handleError_DropsRetryAfter(out) ==
  IF out.kind = "response"
    THEN Err("AuthenticationError",
             Some(OrText(out.data.message, OrText(out.data.error, ServiceFallback))),
             Some(out.status), None)
    ELSE IF out.kind = "noresponse"
      THEN PlainError(NetworkError)
      ELSE out.error

\* handleError: what the service throws for a rejected axios.post
handleError(out) ==
  IF out.kind = "response"
    THEN Err("AuthenticationError",
             Some(OrText(out.data.message, OrText(out.data.error, ServiceFallback))),
             Some(out.status), out.retryAfter)
    ELSE IF out.kind = "noresponse"
      THEN PlainError(NetworkError)
      ELSE out.error

Missing_NoTrim(o) == ~Truthy(o)

\* !str || str.trim() === ''
Missing(o) == ~Truthy(o) \/ Trim(The(o)) = <<>>

validateEmail(email, out) ==
  IF Missing(email)
    THEN Thrown(PlainError(EmailRequired), <<>>)
    ELSE LET calls == <<Call("/api/auth/validate-email", Some(Trim(The(email))), None, None)>>
         IN IF out.kind = "ok"
              THEN Returned(out.data, calls)
              ELSE Thrown(handleError(out), calls)

authenticate(email, password, out) ==
  IF Missing(email)
    THEN Thrown(PlainError(EmailRequired), <<>>)
    ELSE IF Missing(password)
      THEN Thrown(PlainError(PasswordRequired), <<>>)
      ELSE LET calls == <<Call("/api/auth/authenticate", Some(Trim(The(email))), password, None)>>
           IN IF out.kind = "ok"
                THEN Returned(out.data, calls)
                ELSE Thrown(handleError(out), calls)

logout(token, out) ==
  IF Missing(token)
    THEN Thrown(PlainError(TokenRequired), <<>>)
    ELSE LET calls == <<Call("/api/auth/logout", None, None, token)>>
         IN IF out.kind = "ok"
              THEN Returned(out.data, calls)
              ELSE Thrown(handleError(out), calls)

----------------------------------------------------------------------------
(* Auth routes: routes/auth.ts                                             *)

\* A route handler behind a guard: the handler runs only if the guard
\* called next(); the guard's log entries come first.
Guarded(g, h) ==
  IF g.next
    THEN [h EXCEPT !.logs = g.logs \o h.logs, !.next = TRUE]
    ELSE g

\* delete req.session?.errors
DeleteErrors(has, s) == IF has THEN [s EXCEPT !.errors = None] ELSE s

GetLoginHandler_KeepsErrors(has, s) ==
  Result(has, s,
         <<Render("auth/login", SessionErrors(has, s),
                  IF Truthy(SessionTempEmail(has, s))
                    THEN SessionTempEmail(has, s) ELSE Some(<<>>))>>,
         <<>>, <<Log("info", "Rendering login page (step 1: email validation)")>>,
         FALSE, None)

\* GET /auth/login
GetLoginHandler(has, s) ==
  Result(has, DeleteErrors(has, s),
         <<Render("auth/login", SessionErrors(has, s),
                  IF Truthy(SessionTempEmail(has, s))
                    THEN SessionTempEmail(has, s) ELSE Some(<<>>))>>,
         <<>>, <<Log("info", "Rendering login page (step 1: email validation)")>>,
         FALSE, None)

GetLogin(has, s) == Guarded(redirectIfAuthenticated(has, s), GetLoginHandler(has, s))

ValidateEmailErrorMessage_NoRateLimit(err) == OrText(err.message, GenericError)

\* error.statusCode === 429 ? ... : error.message || fallback
ValidateEmailErrorMessage(err) ==
  IF err.statusCode = Some(TooManyRequests)
    THEN TooManyAttempts
    ELSE OrText(err.message, GenericError)

\* Writing a session key when req.session is undefined throws inside the
\* async handler; thrown from the catch block it rejects the handler's
\* promise, which nothing handles, and no response is sent.
NoSessionFailure(calls, logs) ==
  Result(FALSE, EmptySession, <<>>, calls, logs, FALSE, Some(SessionTypeError))

ValidateEmailCatch_ClearsTempEmail(has, s, err, calls, logs) ==
  LET logs2 == logs \o <<Log("error", "Email validation error")>>
  IN IF has
       THEN Result(has,
                   [s EXCEPT !.tempEmail = None,
                             !.errors =
                      Some(<<ErrorEntry(ValidateEmailErrorMessage(err), "#email")>>)],
                   <<Redirect(LoginPath)>>, calls, logs2, FALSE, None)
       ELSE NoSessionFailure(calls, logs2)

ValidateEmailCatch_Appends(has, s, err, calls, logs) ==
  LET logs2 == logs \o <<Log("error", "Email validation error")>>
  IN IF has
       THEN Result(has,
                   [s EXCEPT !.errors =
                      Some(SessionErrors(has, s) \o
                           <<ErrorEntry(ValidateEmailErrorMessage(err), "#email")>>)],
                   <<Redirect(LoginPath)>>, calls, logs2, FALSE, None)
       ELSE NoSessionFailure(calls, logs2)

\* The catch block of POST /auth/validate-email
ValidateEmailCatch(has, s, err, calls, logs) ==
  LET logs2 == logs \o <<Log("error", "Email validation error")>>
  IN IF has
       THEN Result(has,
                   [s EXCEPT !.errors =
                      Some(<<ErrorEntry(ValidateEmailErrorMessage(err), "#email")>>)],
                   <<Redirect(LoginPath)>>, calls, logs2, FALSE, None)
       ELSE NoSessionFailure(calls, logs2)

PostValidateEmailHandler_AnyResult(has, s, email, out) ==
  LET r == validateEmail(email, out)
      logs == <<Log("info", "Processing email validation")>>
  IN IF r.kind = "throw"
       THEN ValidateEmailCatch(has, s, r.err, r.calls, logs)
       ELSE IF has
         THEN Result(has, [s EXCEPT !.tempEmail = email],
                     <<Redirect(PasswordPath)>>, r.calls,
                     logs \o <<Log("info", "Email validated successfully, redirecting to password page")>>,
                     FALSE, None)
         ELSE ValidateEmailCatch(has, s, TypeError, r.calls, logs)

\* POST /auth/validate-email
PostValidateEmailHandler(has, s, email, out) ==
  LET r == validateEmail(email, out)
      logs == <<Log("info", "Processing email validation")>>
  IN IF r.kind = "throw"
       THEN ValidateEmailCatch(has, s, r.err, r.calls, logs)
       ELSE IF IsTrue(r.data.success) /\ IsTrue(r.data.emailValidated)
         THEN IF has
                THEN Result(has, [s EXCEPT !.tempEmail = email],
                            <<Redirect(PasswordPath)>>, r.calls,
                            logs \o <<Log("info", "Email validated successfully, redirecting to password page")>>,
                            FALSE, None)
                ELSE ValidateEmailCatch(has, s, TypeError, r.calls, logs)
         ELSE LET logs2 == logs \o <<Log("warn", "Email validation failed")>>
              IN IF has
                   THEN Result(has,
                               [s EXCEPT !.errors =
                                  Some(<<ErrorEntry(OrText(r.data.message, InvalidEmail), "#email")>>)],
                               <<Redirect(LoginPath)>>, r.calls, logs2, FALSE, None)
                   ELSE ValidateEmailCatch(has, s, TypeError, r.calls, logs2)

PostValidateEmail(has, s, email, out) ==
  Guarded(redirectIfAuthenticated(has, s), PostValidateEmailHandler(has, s, email, out))

GetPasswordHandler_NoCheck(has, s) ==
  Result(has, DeleteErrors(has, s),
         <<Render("auth/password", SessionErrors(has, s), SessionTempEmail(has, s))>>,
         <<>>, <<Log("info", "Rendering password page (step 2)")>>, FALSE, None)

\* GET /auth/password
GetPasswordHandler(has, s) ==
  IF ~Truthy(SessionTempEmail(has, s))
    THEN Result(has, s, <<Redirect(LoginPath)>>, <<>>,
                <<Log("warn", "Password page accessed without validated email")>>,
                FALSE, None)
    ELSE Result(has, DeleteErrors(has, s),
                <<Render("auth/password", SessionErrors(has, s), SessionTempEmail(has, s))>>,
                <<>>, <<Log("info", "Rendering password page (step 2)")>>, FALSE, None)

GetPassword(has, s) == Guarded(redirectIfAuthenticated(has, s), GetPasswordHandler(has, s))

AuthenticatedSession_KeepsTempEmail(s, email, token) ==
  [s EXCEPT !.token = token, !.email = email]

\* session.token = result.token; session.email = email; delete session.tempEmail
AuthenticatedSession(s, email, token) ==
  [s EXCEPT !.token = token, !.email = email, !.tempEmail = None]

AuthenticateErrorMessage_Generic(err) ==
  IF err.statusCode = Some(TooManyRequests)
    THEN TooManyAttempts
    ELSE OrText(err.message, GenericError)

\* 429 ? ... : 401 ? ... : error.message || fallback
AuthenticateErrorMessage(err) ==
  IF err.statusCode = Some(TooManyRequests)
    THEN TooManyAttempts
    ELSE IF err.statusCode = Some(Unauthorized)
      THEN InvalidPassword
      ELSE OrText(err.message, GenericError)

PostAuthenticateHandler_OtherEmail(has, s, password, out) ==
  LET email == Some(<<"w", "@", "x">>)
  IN IF ~Truthy(SessionTempEmail(has, s))
       THEN Result(has, s, <<Redirect(LoginPath)>>, <<>>,
                   <<Log("warn", "Authentication attempted without validated email")>>,
                   FALSE, None)
       ELSE LET r == authenticate(email, password, out)
                logs == <<Log("info", "Processing authentication")>>
            IN IF r.kind = "return"
                 THEN Result(has, AuthenticatedSession(s, email, r.data.token),
                             <<Redirect(TasksPath)>>, r.calls,
                             logs \o <<Log("info", "Authentication successful, redirecting to tasks")>>,
                             FALSE, None)
                 ELSE Result(has,
                             [s EXCEPT !.errors =
                                Some(<<ErrorEntry(AuthenticateErrorMessage(r.err), "#password")>>)],
                             <<Redirect(PasswordPath)>>, r.calls,
                             logs \o <<Log("error", "Authentication error")>>,
                             FALSE, None)

\* POST /auth/authenticate
PostAuthenticateHandler(has, s, password, out) ==
  LET email == SessionTempEmail(has, s)
  IN IF ~Truthy(email)
       THEN Result(has, s, <<Redirect(LoginPath)>>, <<>>,
                   <<Log("warn", "Authentication attempted without validated email")>>,
                   FALSE, None)
       ELSE LET r == authenticate(email, password, out)
                logs == <<Log("info", "Processing authentication")>>
            IN IF r.kind = "return"
                 THEN Result(has, AuthenticatedSession(s, email, r.data.token),
                             <<Redirect(TasksPath)>>, r.calls,
                             logs \o <<Log("info", "Authentication successful, redirecting to tasks")>>,
                             FALSE, None)
                 ELSE Result(has,
                             [s EXCEPT !.errors =
                                Some(<<ErrorEntry(AuthenticateErrorMessage(r.err), "#password")>>)],
                             <<Redirect(PasswordPath)>>, r.calls,
                             logs \o <<Log("error", "Authentication error")>>,
                             FALSE, None)

PostAuthenticate(has, s, password, out) ==
  Guarded(redirectIfAuthenticated(has, s), PostAuthenticateHandler(has, s, password, out))

\* The remote invalidation of GET /auth/logout: attempted only with a token,
\* its failure logged and swallowed.
LogoutRemote(has, s, out) ==
  LET token == SessionToken(has, s)
  IN IF Truthy(token)
       THEN LET r == logout(token, out)
            IN [calls |-> r.calls,
                logs |-> <<Log("info", "Processing logout")>> \o
                         (IF r.kind = "return"
                            THEN <<Log("info", "Logout successful")>>
                            ELSE <<Log("error", "Logout error")>>)]
       ELSE [calls |-> <<>>, logs |-> <<>>]

GetLogout_GatedOnRemote(has, s, out, destroyErr) ==
  LET remote == LogoutRemote(has, s, out)
  IN IF has /\ Log("error", "Logout error") \notin {remote.logs[i] : i \in DOMAIN remote.logs}
       THEN Result(FALSE, EmptySession, <<Redirect(LoginPath)>>, remote.calls,
                   remote.logs \o
                     (IF destroyErr THEN <<Log("error", "Session destruction error")>> ELSE <<>>),
                   TRUE, None)
       ELSE Result(has, s, <<Redirect(LoginPath)>>, remote.calls, remote.logs, TRUE, None)

\* GET /auth/logout: req.session?.destroy(callback); the callback logs a
\* destruction error and redirects.
GetLogout(has, s, out, destroyErr) ==
  LET remote == LogoutRemote(has, s, out)
  IN IF has
       THEN Result(FALSE, EmptySession, <<Redirect(LoginPath)>>, remote.calls,
                   remote.logs \o
                     (IF destroyErr THEN <<Log("error", "Session destruction error")>> ELSE <<>>),
                   TRUE, None)
       ELSE Result(has, s, <<>>, remote.calls, remote.logs, TRUE, None)

PostBackToEmail_ClearsErrors(has, s) ==
  Result(has, IF has THEN [s EXCEPT !.tempEmail = None, !.errors = None] ELSE s,
         <<Redirect(LoginPath)>>, <<>>,
         <<Log("info", "User going back to email page")>>, TRUE, None)

\* POST /auth/back-to-email
PostBackToEmail(has, s) ==
  Result(has, IF has THEN [s EXCEPT !.tempEmail = None] ELSE s,
         <<Redirect(LoginPath)>>, <<>>,
         <<Log("info", "User going back to email page")>>, TRUE, None)

----------------------------------------------------------------------------
(* A protected route: routes/tasks.ts                                      *)

\* GET /tasks/create
GetTasksCreate(has, s) ==
  Guarded(requireAuth(has, s),
          Result(has, s, <<Render("tasks/manage", <<>>, None)>>, <<>>, <<>>, FALSE, None))

\* `Bearer ${token}`: an undefined token is interpolated as 'undefined'
Bearer(token) ==
  <<"B", "e", "a", "r", "e", "r", " ">> \o
  (IF token = None THEN <<"u", "n", "d", "e", "f", "i", "n", "e", "d">> ELSE The(token))

\* An axios call to the backend's tasks endpoint
TaskCall(method, authorization, data) ==
  [endpoint |-> "/api/tasks", method |-> method, authorization |-> authorization,
   data |-> data]

\* error.response.data of a failed task creation
TaskErrorData(validationErrors, message) ==
  [validationErrors |-> validationErrors, message |-> message]

TaskDefaultError == "An unexpected error occurred while creating the task."

TaskValidationError == "Please correct the validation errors below."

TaskBusinessRule == "Tasks cannot be due on weekends or bank holidays"

TitleError == <<"title", "Title must be between 3 and 200 characters">>

\* res.status(400).render('tasks/manage', {errorMessage, validationErrors, ...})
TaskForm(code, errorMessage, validationErrors) ==
  [kind |-> "render", status |-> code, target |-> "tasks/manage",
   message |-> errorMessage, validationErrors |-> validationErrors]

\* How axios settles a tasks call: "ok" with data (None: no body); "response"
\* rejects with error.response set, its data undefined (None) or an object;
\* "noresponse" rejects without response (timeout, network); "other" rejects
\* with a value that has no response property
TaskOutcomes ==
  { Outcome("ok", 200, d, None, NoError) : d \in {None, Some("tasks")} }
  \cup { Outcome("response", st, d, None, NoError) :
           st \in {400, 500},
           d \in {None} \cup
                 { Some(TaskErrorData(v, m)) :
                     v \in {None, Some({}), Some({TitleError})},
                     m \in {None, Some(""), Some(TaskBusinessRule)} } }
  \cup { Outcome("noresponse", 0, None, None, NoError),
         Outcome("other", 0, None, None, NoError) }

\* The message and the field errors the catch block of POST /tasks/create
\* chooses
TaskError_MessageFirst(out) ==
  IF out.kind = "response" /\ out.data # None
    THEN LET errorData == The(out.data)
         IN IF errorData.message \notin {None, Some("")}
              THEN [message |-> The(errorData.message), validationErrors |-> {}]
              ELSE IF errorData.validationErrors # None
                THEN [message |-> TaskValidationError,
                      validationErrors |-> The(errorData.validationErrors)]
                ELSE [message |-> TaskDefaultError, validationErrors |-> {}]
    ELSE [message |-> TaskDefaultError, validationErrors |-> {}]

TaskError(out) ==
  IF out.kind = "response" /\ out.data # None
    THEN LET errorData == The(out.data)
         IN IF errorData.validationErrors # None
              THEN [message |-> TaskValidationError,
                    validationErrors |-> The(errorData.validationErrors)]
              ELSE IF errorData.message \notin {None, Some("")}
                THEN [message |-> The(errorData.message), validationErrors |-> {}]
                ELSE [message |-> TaskDefaultError, validationErrors |-> {}]
    ELSE [message |-> TaskDefaultError, validationErrors |-> {}]

\* GET /tasks: response.data.length throws when there is no data
GetTasksHandler(has, s, out) ==
  LET calls == <<TaskCall("GET", Bearer(SessionToken(has, s)), None)>>
  IN IF out.kind = "ok" /\ out.data # None
       THEN Result(has, s, <<Render("tasks/list", <<>>, IF has THEN s.email ELSE None)>>,
                   calls, <<Log("info", "Tasks fetched successfully")>>, FALSE, None)
       ELSE Result(has, s, <<RenderStatus(200, "error", "Unable to fetch tasks")>>,
                   calls, <<Log("error", "Error fetching tasks")>>, FALSE, None)

GetTasks(has, s, out) ==
  Guarded(requireAuth(has, s), GetTasksHandler(has, s, out))

\* POST /tasks/create: reading req.body.title throws when req.body is
\* undefined, and response.data.id when the answer has no data; both land in
\* the catch block like a rejected call
PostTasksCreateHandler(has, s, body, out) ==
  IF body = None
    THEN Result(has, s, <<TaskForm(400, TaskDefaultError, {})>>, <<>>,
                <<Log("error", "Error creating task")>>, FALSE, None)
    ELSE LET calls == <<TaskCall("POST", Bearer(SessionToken(has, s)), body)>>
             logs == <<Log("info", "Submitting task creation request")>>
         IN IF out.kind = "ok" /\ out.data # None
              THEN Result(has, s, <<Render("tasks/success", <<>>, None)>>, calls,
                          logs \o <<Log("info", "Task created successfully")>>,
                          FALSE, None)
              ELSE Result(has, s,
                          <<TaskForm(400, TaskError(out).message,
                                     TaskError(out).validationErrors)>>,
                          calls, logs \o <<Log("error", "Error creating task")>>,
                          FALSE, None)

PostTasksCreate(has, s, body, out) ==
  Guarded(requireAuth(has, s), PostTasksCreateHandler(has, s, body, out))

----------------------------------------------------------------------------
(* Rate limiter store: app.ts                                              *)

\* Client addresses (req.ip)
Clients == {"10.0.0.1", "10.0.0.2"}

\* The limiter's store at start: no client has a hit in the current window
NoHits == [c \in Clients |-> 0]

\* max: config rateLimiting.max, else 100
rateLimitMax == 100

TooManyRequestsPage ==
  RenderStatus(429, "error", "Too many requests, please try again later.")

limiter_OffByOne(store, ip) ==
  LET totalHits == store[ip] + 1
  IN [hits |-> [store EXCEPT ![ip] = totalHits],
      responses |-> IF totalHits >= rateLimitMax THEN <<TooManyRequestsPage>> ELSE <<>>,
      logs |-> IF totalHits >= rateLimitMax
                 THEN <<Log("warn", "Rate limit exceeded")>> ELSE <<>>,
      next |-> totalHits < rateLimitMax]

\* limiter: the request is counted for its client address; once the count
\* of the window exceeds max the configured handler answers 429 and next()
\* is not called
limiter(store, ip) ==
  LET totalHits == store[ip] + 1
  IN [hits |-> [store EXCEPT ![ip] = totalHits],
      responses |-> IF totalHits > rateLimitMax THEN <<TooManyRequestsPage>> ELSE <<>>,
      logs |-> IF totalHits > rateLimitMax
                 THEN <<Log("warn", "Rate limit exceeded")>> ELSE <<>>,
      next |-> totalHits <= rateLimitMax]

----------------------------------------------------------------------------
(* The application: app.ts                                                 *)

\* req.path of the registered routes, and one path no route matches
LoginRoute == <<"/", "a", "u", "t", "h", "/", "l", "o", "g", "i", "n">>

ValidateEmailRoute ==
  <<"/", "a", "u", "t", "h", "/", "v", "a", "l", "i", "d", "a", "t", "e", "-", "e", "m", "a", "i", "l">>

PasswordRoute == <<"/", "a", "u", "t", "h", "/", "p", "a", "s", "s", "w", "o", "r", "d">>

AuthenticateRoute ==
  <<"/", "a", "u", "t", "h", "/", "a", "u", "t", "h", "e", "n", "t", "i", "c", "a", "t", "e">>

LogoutRoute == <<"/", "a", "u", "t", "h", "/", "l", "o", "g", "o", "u", "t">>

BackToEmailRoute ==
  <<"/", "a", "u", "t", "h", "/", "b", "a", "c", "k", "-", "t", "o", "-", "e", "m", "a", "i", "l">>

TasksRoute == <<"/", "t", "a", "s", "k", "s">>

TasksCreateRoute == <<"/", "t", "a", "s", "k", "s", "/", "c", "r", "e", "a", "t", "e">>

UnknownRoute == <<"/", "n", "o", "w", "h", "e", "r", "e">>

\* Keys of the submitted form
EmailKey == <<"e", "m", "a", "i", "l">>

PasswordKey == <<"p", "a", "s", "s", "w", "o", "r", "d">>

TitleKey == <<"t", "i", "t", "l", "e">>

CsrfKey == <<"_", "c", "s", "r", "f">>

\* What the application reads of a request: method, path, client address,
\* Content-Type header, the secret of the _csrf cookie, the csrf-token header
\* and the payload as the sequence of its <<key, value>> entries
AppReq(method, path, ip, contentType, cookieSecret, headerToken, payload) ==
  [method |-> method, path |-> path, ip |-> ip, contentType |-> contentType,
   cookieSecret |-> cookieSecret, headerToken |-> headerToken, payload |-> payload]

\* What the application did with one request: a handler's result, the
\* limiter's store, the response headers and the steps that ran, in order
AppResult(res, store, headers, stages) ==
  [has |-> res.has, s |-> res.s, responses |-> res.responses, calls |-> res.calls,
   logs |-> res.logs, next |-> res.next, unhandled |-> res.unhandled,
   hits |-> store, headers |-> headers, stages |-> stages]

\* helmet({contentSecurityPolicy, hsts}): sets the configured headers and,
\* with no other option given, its defaults for framing and MIME sniffing;
\* calls next()
helmet(headers) ==
  SetHeader(SetHeader(SetHeader(SetHeader(headers,
    "Content-Security-Policy", "default-src 'self'"),
    "Strict-Transport-Security", "max-age=31536000; includeSubDomains; preload"),
    "X-Content-Type-Options", "nosniff"),
    "X-Frame-Options", "SAMEORIGIN")

\* bodyParser.json and bodyParser.urlencoded: req.body is the payload of a
\* request of their content type, and {} otherwise
ParseBody(r) ==
  IF r.contentType \in {Some(ApplicationJson), Some(FormUrlencoded)}
    THEN r.payload
    ELSE <<>>

\* req.body[key]
Field(body, key) ==
  IF \E i \in DOMAIN body : body[i][1] = key
    THEN Some(body[CHOOSE i \in DOMAIN body : body[i][1] = key][2])
    ELSE None

\* A token made for a secret: a salt, '-', and a digest of salt and secret
\* (the digest stands as the pair itself)
CsrfToken(salt, secret) == <<salt, "-", salt>> \o secret

\* The token matches the secret
CsrfVerify(secret, token) ==
  /\ secret # None
  /\ Truthy(token)
  /\ The(token) = CsrfToken(Head(The(token)), The(secret))

\* Methods the CSRF protection lets pass without a token
ignoreMethods == {"GET", "HEAD", "OPTIONS"}

csrfProtection_IgnoresPost(r, body) ==
  LET token == IF Truthy(Field(body, CsrfKey)) THEN Field(body, CsrfKey) ELSE r.headerToken
  IN r.method \in ignoreMethods \cup {"POST"} \/ CsrfVerify(r.cookieSecret, token)

\* csrf({cookie}): the secret is the one of the _csrf cookie; the token is
\* read from req.body._csrf, else from the csrf-token header; a request of
\* another method whose token does not match is passed to the error handler
\* with code EBADCSRFTOKEN. TRUE: next() without error.
csrfProtection(r, body) ==
  LET token == IF Truthy(Field(body, CsrfKey)) THEN Field(body, CsrfKey) ELSE r.headerToken
  IN r.method \in ignoreMethods \/ CsrfVerify(r.cookieSecret, token)

\* The three headers app.ts sets on every response that gets this far
AppHeaders(headers) ==
  SetHeader(SetHeader(SetHeader(headers,
    "Cache-Control", "no-cache, max-age=0, must-revalidate, no-store"),
    "X-Content-Type-Options", "nosniff"),
    "X-Frame-Options", "DENY")

CsrfFailedPage ==
  RenderStatus(403, "error", "Form submission failed. Please refresh the page and try again.")

NotFoundPage == RenderStatus(404, "not-found", "Page not found")

\* The error handler, for the error of the CSRF protection
errorHandler(has, s) ==
  Result(has, s, <<CsrfFailedPage>>, <<>>,
         <<Log("error", "Application error"), Log("warn", "CSRF token validation failed")>>,
         FALSE, None)

\* The 404 handler
notFound(has, s) ==
  Result(has, s, <<NotFoundPage>>, <<>>, <<Log("warn", "Route not found")>>, FALSE, None)

\* The registered route of a request, if any
RouteOf(r) ==
  IF r.method = "GET" /\ r.path = LoginRoute THEN "GET /auth/login"
  ELSE IF r.method = "POST" /\ r.path = ValidateEmailRoute THEN "POST /auth/validate-email"
  ELSE IF r.method = "GET" /\ r.path = PasswordRoute THEN "GET /auth/password"
  ELSE IF r.method = "POST" /\ r.path = AuthenticateRoute THEN "POST /auth/authenticate"
  ELSE IF r.method = "GET" /\ r.path = LogoutRoute THEN "GET /auth/logout"
  ELSE IF r.method = "POST" /\ r.path = BackToEmailRoute THEN "POST /auth/back-to-email"
  ELSE IF r.method = "GET" /\ r.path = TasksRoute THEN "GET /tasks"
  ELSE IF r.method = "GET" /\ r.path = TasksCreateRoute THEN "GET /tasks/create"
  ELSE IF r.method = "POST" /\ r.path = TasksCreateRoute THEN "POST /tasks/create"
  ELSE "none"

\* The routes, then the 404 handler
Routes(has, s, r, body, out, destroyErr) ==
  CASE RouteOf(r) = "GET /auth/login" -> GetLogin(has, s)
    [] RouteOf(r) = "POST /auth/validate-email" ->
         PostValidateEmail(has, s, Field(body, EmailKey), out)
    [] RouteOf(r) = "GET /auth/password" -> GetPassword(has, s)
    [] RouteOf(r) = "POST /auth/authenticate" ->
         PostAuthenticate(has, s, Field(body, PasswordKey), out)
    [] RouteOf(r) = "GET /auth/logout" -> GetLogout(has, s, out, destroyErr)
    [] RouteOf(r) = "POST /auth/back-to-email" -> PostBackToEmail(has, s)
    [] RouteOf(r) = "GET /tasks" -> GetTasks(has, s, out)
    [] RouteOf(r) = "GET /tasks/create" -> GetTasksCreate(has, s)
    [] RouteOf(r) = "POST /tasks/create" -> PostTasksCreate(has, s, Some(body), out)
    [] OTHER -> notFound(has, s)

\* One request through the middleware in the order of registration: helmet,
\* limiter, body parsers, cookie parser, CSRF protection, the header
\* middleware, the routes, the 404 handler; the error handler for an error
\* passed to next(). serve-favicon and express.static pass on every path
\* considered here.
app(has, s, store, r, out, destroyErr) ==
  LET l == limiter(store, r.ip)
      body == ParseBody(r)
  IN IF ~l.next
       THEN AppResult(Result(has, s, l.responses, <<>>, l.logs, FALSE, None),
                      l.hits, helmet({}), <<"helmet", "limiter">>)
       ELSE IF ~csrfProtection(r, body)
         THEN AppResult(errorHandler(has, s), l.hits, helmet({}),
                        <<"helmet", "limiter", "bodyParser", "cookieParser",
                          "csrfProtection", "errorHandler">>)
         ELSE AppResult(Routes(has, s, r, body, out, destroyErr), l.hits,
                        AppHeaders(helmet({})),
                        <<"helmet", "limiter", "bodyParser", "cookieParser",
                          "csrfProtection", "headers",
                          IF RouteOf(r) = "none" THEN "notFound" ELSE "route">>)

----------------------------------------------------------------------------
(* State machine: one action per request, handled to completion           *)

\* Session ids of the session store
Sids == {"s1", "s2"}

\* The session store: the session of every id, and whether req.session is
\* the stored object itself (shared by the requests of the session) or a
\* copy loaded when the request starts and saved back when it ends
Store(shared, sessions) == [shared |-> shared, sessions |-> sessions]

NoStore == Store(TRUE, [sid \in Sids |-> EmptySession])

\* The record of the request handled last: what came in (the session before
\* it, the submitted fields, the backend's answer when the backend was
\* called) and what the handler did.
Handled(op, email, password, out, destroyErr, res) ==
  [op |-> op, preHas |-> hasSession, pre |-> session,
   email |-> email, password |-> password, token |-> None,
   out |-> IF res.calls = <<>> THEN NoOutcome ELSE out,
   settled |-> NotSettled, input |-> <<>>, output |-> <<>>, output2 |-> <<>>,
   req |-> NoReq, headers |-> {}, listeners |-> 0, destroyErr |-> destroyErr,
   postHas |-> res.has, post |-> res.s,
   responses |-> res.responses, calls |-> res.calls, logs |-> res.logs,
   next |-> res.next, unhandled |-> res.unhandled, stages |-> <<>>,
   sid |-> "none"]

NoRequest ==
  [op |-> "none", preHas |-> FALSE, pre |-> EmptySession,
   email |-> None, password |-> None, token |-> None,
   out |-> NoOutcome, settled |-> NotSettled,
   input |-> <<>>, output |-> <<>>, output2 |-> <<>>, req |-> NoReq,
   headers |-> {}, listeners |-> 0, destroyErr |-> FALSE,
   postHas |-> FALSE, post |-> EmptySession,
   responses |-> <<>>, calls |-> <<>>, logs |-> <<>>,
   next |-> FALSE, unhandled |-> None, stages |-> <<>>, sid |-> "none"]

Apply(op, email, password, out, destroyErr, res) ==
  /\ hasSession' = res.has
  /\ session' = res.s
  /\ UNCHANGED <<hits, sessionStore, inflight>>
  /\ last' = Handled(op, email, password, out, destroyErr, res)

Init ==
  /\ hasSession = FALSE
  /\ session = EmptySession
  /\ hits = NoHits
  /\ sessionStore = NoStore
  /\ inflight = {}
  /\ last = NoRequest

\* The hosting framework's session mechanism: a request without a session
\* gets a new, empty one.
CreateSession ==
  /\ ~hasSession
  /\ hasSession' = TRUE
  /\ session' = EmptySession
  /\ UNCHANGED <<hits, sessionStore, inflight>>
  /\ last' = [NoRequest EXCEPT !.op = "session", !.postHas = TRUE]

ReqGetLogin ==
  Apply("GET /auth/login", None, None, NoOutcome, FALSE,
        GetLogin(hasSession, session))

ReqPostValidateEmail ==
  \E email \in BodyEmails, out \in ValidateEmailOutcomes :
    Apply("POST /auth/validate-email", email, None, out, FALSE,
          PostValidateEmail(hasSession, session, email, out))

ReqGetPassword ==
  Apply("GET /auth/password", None, None, NoOutcome, FALSE,
        GetPassword(hasSession, session))

ReqPostAuthenticate ==
  \E password \in BodyPasswords, out \in AuthenticateOutcomes :
    Apply("POST /auth/authenticate", None, password, out, FALSE,
          PostAuthenticate(hasSession, session, password, out))

ReqGetLogout ==
  \E out \in LogoutOutcomes, destroyErr \in BOOLEAN :
    Apply("GET /auth/logout", None, None, out, hasSession /\ destroyErr,
          GetLogout(hasSession, session, out, destroyErr))

ReqPostBackToEmail ==
  Apply("POST /auth/back-to-email", None, None, NoOutcome, FALSE,
        PostBackToEmail(hasSession, session))

ReqGetTasksCreate ==
  Apply("GET /tasks/create", None, None, NoOutcome, FALSE,
        GetTasksCreate(hasSession, session))

MwRequireAuth ==
  Apply("requireAuth", None, None, NoOutcome, FALSE,
        requireAuth(hasSession, session))

MwRedirectIfAuthenticated ==
  Apply("redirectIfAuthenticated", None, None, NoOutcome, FALSE,
        redirectIfAuthenticated(hasSession, session))

MwClearAuth ==
  Apply("clearAuth", None, None, NoOutcome, FALSE,
        clearAuth(hasSession, session))

Next ==
  \/ CreateSession
  \/ ReqGetLogin
  \/ ReqPostValidateEmail
  \/ ReqGetPassword
  \/ ReqPostAuthenticate
  \/ ReqGetLogout
  \/ ReqPostBackToEmail
  \/ ReqGetTasksCreate
  \/ MwClearAuth

Spec == Init /\ [][Next]_vars

----------------------------------------------------------------------------
(* The guards as units: every session object of the declared SessionData   *)
(* type, and no session at all, as the unit tests construct them           *)

SessionEmails == {None, Some(UserEmail), Some(PaddedEmail)}

SessionTokens == {None, Some(<<>>), Some(BlankStr), Some(TokenA)}

SessionErrorLists ==
  {None, Some(<<>>)} \cup
  { Some(<<ErrorEntry(t, h)>>) :
      t \in {TooManyAttempts, InvalidPassword, InvalidEmail}, h \in {"#email", "#password"} }

AllSessions ==
  [tempEmail : SessionEmails, token : SessionTokens, email : SessionEmails,
   errors : SessionErrorLists]

InitMw ==
  /\ hasSession \in BOOLEAN
  /\ session \in AllSessions
  /\ ~hasSession => session = EmptySession
  /\ hits = NoHits
  /\ sessionStore = NoStore
  /\ inflight = {}
  /\ last = NoRequest

NextMw ==
  \/ MwRequireAuth
  \/ MwRedirectIfAuthenticated
  \/ MwClearAuth

SpecMw == InitMw /\ [][NextMw]_vars

----------------------------------------------------------------------------
(* The remote client as a unit: each method called with every kind of      *)
(* argument and every way the HTTP call can settle                         *)

SvcErrorBodies ==
  ErrorBodies \cup
  { Data(None, None, None, None, Some(BackendMessage), Some(BackendErrorText)),
    Data(None, None, None, None, Some(""), Some(BackendErrorText)),
    Data(None, None, None, None, Some(""), Some("")) }

\* Errors that carry neither response nor request
OtherErrors ==
  { AxiosSetupError,
    Err("TypeError", Some("Cannot read properties of null"), None, None),
    Err("Error", None, None, None) }

SvcFailedOutcomes ==
  { Outcome("response", st, d, ra, NoError) :
      st \in {400, Unauthorized, TooManyRequests, 500},
      d \in SvcErrorBodies, ra \in {None, Some("900")} }
  \cup { Outcome("noresponse", 0, NoData, None, NoError) }
  \cup { Outcome("other", 0, NoData, None, e) : e \in OtherErrors }

\* The record of one call of a service method: its arguments, how the HTTP
\* call settled when it was made, and what the method settled with.
Called(op, email, password, token, out, r) ==
  [NoRequest EXCEPT !.op = op, !.email = email, !.password = password,
                    !.token = token,
                    !.out = IF r.calls = <<>> THEN NoOutcome ELSE out,
                    !.settled = r, !.calls = r.calls]

SvcValidateEmail ==
  \E email \in BodyEmails, out \in ValidateEmailOutcomes \cup SvcFailedOutcomes :
    /\ last' = Called("validateEmail", email, None, None, out, validateEmail(email, out))
    /\ UNCHANGED <<hasSession, session, hits, sessionStore, inflight>>

SvcAuthenticate ==
  \E email \in BodyEmails, password \in BodyPasswords,
     out \in AuthenticateOutcomes \cup SvcFailedOutcomes :
    /\ last' = Called("authenticate", email, password, None, out,
                      authenticate(email, password, out))
    /\ UNCHANGED <<hasSession, session, hits, sessionStore, inflight>>

SvcLogout ==
  \E token \in SessionTokens, out \in LogoutOutcomes \cup SvcFailedOutcomes :
    /\ last' = Called("logout", None, None, token, out, logout(token, out))
    /\ UNCHANGED <<hasSession, session, hits, sessionStore, inflight>>

NextSvc ==
  \/ SvcValidateEmail
  \/ SvcAuthenticate
  \/ SvcLogout

SpecSvc == Init /\ [][NextSvc]_vars

----------------------------------------------------------------------------
(* The sanitizer as a unit: inputs are concatenations of a few fragments   *)

MaxFragments == 3

Fragments ==
  { <<"<">>, <<">">>, <<" ">>, <<"a">>, <<"o">>,
    <<"j", "a", "v", "a">>, <<"s", "c", "r", "i", "p", "t", ":">>,
    <<"J", "a", "v", "a", "S", "c", "r", "i", "p", "t", ":">>,
    <<"O", "N", "x", "=">>, <<"n", "x", "=">> }

RECURSIVE Concatenations(_)
Concatenations(n) ==
  IF n = 0 THEN {<<>>}
  ELSE LET shorter == Concatenations(n - 1)
       IN shorter \cup { p \o f : p \in shorter, f \in Fragments }

SanitizerInputs == Concatenations(MaxFragments)

InitSan ==
  /\ hasSession = FALSE
  /\ session = EmptySession
  /\ hits = NoHits
  /\ sessionStore = NoStore
  /\ inflight = {}
  /\ last \in { [NoRequest EXCEPT !.op = "input", !.input = x] : x \in SanitizerInputs }

\* sanitizeInput(input)
Sanitize ==
  /\ last.op = "input"
  /\ last' = [last EXCEPT !.op = "sanitizeInput", !.output = sanitizeInput(last.input)]
  /\ UNCHANGED <<hasSession, session, hits, sessionStore, inflight>>

\* sanitizeInput(sanitizeInput(input))
SanitizeAgain ==
  /\ last.op = "sanitizeInput"
  /\ last' = [last EXCEPT !.op = "sanitizeInput twice",
                          !.output2 = sanitizeInput(last.output)]
  /\ UNCHANGED <<hasSession, session, hits, sessionStore, inflight>>

NextSan ==
  \/ Sanitize
  \/ SanitizeAgain

SpecSan == InitSan /\ [][NextSan]_vars

----------------------------------------------------------------------------
(* The classifier as a unit                                                *)

RequestPaths ==
  { <<"/", "t", "a", "s", "k", "s">>, <<"/", "a", "/", ".", ".", "/", "b">>, <<"/", "E", "T", "C", "/", "x">>,
    <<"/", "b", "i", "n">>, <<"/", "D", "r", "o", "p">> }

RequestValues ==
  { <<"1">>, <<"o", "k">>, <<".">>, <<".", " ", ".">>, <<"p", "l", "s", " ", "s", "e", "l", "e", "c", "t", " ", "1">>,
    <<"s", "e", "l", "e", "c">>, <<"U", "N", "I", "O", "N">>,
    <<"I", "n", "s", "e", "r", "t">>, <<"u", "p", "d", "a", "t", "e">>,
    <<"d", "e", "l", "e", "t", "e">>, <<"e", "x", "e", "c">>,
    <<"s", "c", "r", "\"", "i", "p", "t">>, <<"s", "c", "r", "i", "p", "t">>,
    <<"<", "s", "c", "r", "i", "p", "t">>, <<"<", "s", "c", "r", "i">>,
    <<"J", "a", "v", "a", "S", "c", "r", "i", "p", "t", ":">>, <<"o", "n", "e", "r", "r", "o", "r", "=", "1">>,
    <<"O", "N", "L", "O", "A", "D", "=">>, <<"o", "n", " ", "l", "o", "a", "d", "=">>,
    <<"/", "e", "t", "c">> }

RequestKeys == { <<"q">>, <<"e", "x", "e", "c">> }

\* req.query: undefined in a bare mock, else an object
RequestQueries ==
  {None, Some(<<>>)} \cup { Some(<< <<<<"q">>, v>> >>) : v \in RequestValues }

\* req.body: undefined without a body parser, else an object
RequestBodies ==
  {None, Some(<<>>)} \cup
  { Some(<< <<k, v>> >>) : k \in RequestKeys, v \in RequestValues } \cup
  { Some(<< <<<<"a">>, <<".">>>>, <<<<"b">>, <<".">>>> >>) }

\* Requests of the classifier's documented examples
TraversalExample ==
  Req(<<"/", "f", "i", "l", "e", "s", "/", ".", ".", "/", ".", ".", "/",
          "e", "t", "c", "/", "p", "a", "s", "s", "w", "d">>,
      Some(<<>>), Some(<<>>))

SqlExample ==
  Req(<<"/", "t", "a", "s", "k", "s">>, Some(<<>>),
      Some(<< << <<"u", "s", "e", "r", "n", "a", "m", "e">>,
                 <<"a", "d", "m", "i", "n", "'", ";", " ", "D", "R", "O",
                    "P", " ", "T", "A", "B", "L", "E", " ", "u", "s", "e",
                    "r", "s", ";", " ", "-", "-">> >> >>))

XssExample ==
  Req(<<"/", "t", "a", "s", "k", "s">>,
      Some(<< << <<"q">>,
                 <<"<", "s", "c", "r", "i", "p", "t", ">", "a", "l", "e",
                    "r", "t", "(", "1", ")", "<", "/", "s", "c", "r", "i",
                    "p", "t", ">">> >> >>),
      Some(<<>>))

\* Requests of the application's own forms: the task form with its four
\* fields, and the email form
TaskFormExample ==
  Req(<<"/", "t", "a", "s", "k", "s", "/", "c", "r", "e", "a", "t", "e">>, Some(<<>>),
      Some(<< << <<"t", "i", "t", "l", "e">>,
           <<"T", "e", "s", "t", " ", "T", "a", "s", "k">> >>,
         << <<"d", "e", "s", "c", "r", "i", "p", "t", "i", "o", "n">>,
           <<"N", "o", "t", "e", "s">> >>,
         << <<"s", "t", "a", "t", "u", "s">>,
           <<"P", "E", "N", "D", "I", "N", "G">> >>,
         << <<"d", "u", "e", "D", "a", "t", "e", "T", "i", "m", "e">>,
           <<"2", "0", "2", "5", "-", "1", "2", "-", "1", "5", "T", "1", "4",
           ":", "3", "0", ":", "0", "0">> >> >>))

EmailFormExample ==
  Req(<<"/", "a", "u", "t", "h", "/", "v", "a", "l", "i", "d", "a", "t", "e",
      "-", "e", "m", "a", "i", "l">>,
      Some(<<>>),
      Some(<< << <<"e", "m", "a", "i", "l">>,
           <<"u", "s", "e", "r", "@", "e", "x", "a", "m", "p", "l", "e", ".",
           "c", "o", "m">> >> >>))

Requests ==
  { Req(p, q, b) : p \in RequestPaths, q \in RequestQueries, b \in RequestBodies }
  \cup {TraversalExample, SqlExample, XssExample, TaskFormExample, EmailFormExample}

InitDetect ==
  /\ hasSession = FALSE
  /\ session = EmptySession
  /\ hits = NoHits
  /\ sessionStore = NoStore
  /\ inflight = {}
  /\ last \in { [NoRequest EXCEPT !.op = "request", !.req = r] : r \in Requests }

Detect ==
  /\ last.op = "request"
  /\ LET d == detectSuspiciousActivity(last.req)
     IN last' = [last EXCEPT !.op = "detectSuspiciousActivity",
                             !.responses = d.responses, !.logs = d.logs,
                             !.next = d.next]
  /\ UNCHANGED <<hasSession, session, hits, sessionStore, inflight>>

NextDetect == Detect

SpecDetect == InitDetect /\ [][NextDetect]_vars

----------------------------------------------------------------------------
(* The security middleware as units                                        *)

Methods == {"GET", "HEAD", "OPTIONS", "DELETE", "POST", "PUT", "PATCH"}

\* req.get('content-type')
ContentTypes ==
  { None, Some(<<>>), Some(ApplicationJson), Some(FormUrlencoded),
    Some(ApplicationJson \o <<";", " ", "c", "h", "a", "r", "s", "e", "t", "=", "u", "t", "f", "-", "8">>),
    Some(MultipartFormData \o <<";", " ", "b", "o", "u", "n", "d", "a", "r", "y", "=", "x">>),
    Some(<<"t", "e", "x", "t", "/", "p", "l", "a", "i", "n">>), Some(<<"t", "e", "x", "t", "/", "x", "m", "l">>),
    Some(<<"A", "p", "p", "l", "i", "c", "a", "t", "i", "o", "n", "/", "J", "S", "O", "N">>),
    Some(<<"a", "p", "p", "l", "i", "c", "a", "t", "i", "o", "n", "/", "j", "s", "o">>),
    Some(<<"x", "m", "u", "l", "t", "i", "p", "a", "r", "t", "/", "f", "o", "r", "m", "-", "d", "a", "t", "a", "x">>) }

\* Headers set on the response before the middleware runs
EarlierHeaders ==
  { {}, {<<"X-Frame-Options", "SAMEORIGIN">>},
    {<<"X-Frame-Options", "DENY">>, <<"Cache-Control", "no-store">>} }

UserAgents == {None, Some("Mozilla/5.0")}

SecRequests ==
  { HttpReq(m, <<"/", "t", "e", "s", "t">>, ct, "10.0.0.1", ua, hs) :
      m \in Methods, ct \in ContentTypes, ua \in UserAgents, hs \in EarlierHeaders }

InitSec ==
  /\ hasSession = FALSE
  /\ session = EmptySession
  /\ hits = NoHits
  /\ sessionStore = NoStore
  /\ inflight = {}
  /\ last \in { [NoRequest EXCEPT !.op = "request", !.req = r,
                                  !.headers = r.resHeaders] : r \in SecRequests }

MwValidateContentType ==
  /\ last.op = "request"
  /\ LET v == validateContentType(last.req)
     IN last' = [last EXCEPT !.op = "validateContentType",
                             !.responses = v.responses, !.logs = v.logs,
                             !.next = v.next]
  /\ UNCHANGED <<hasSession, session, hits, sessionStore, inflight>>

MwSecurityHeaders ==
  /\ last.op = "request"
  /\ LET h == securityHeaders(last.req)
     IN last' = [last EXCEPT !.op = "securityHeaders", !.headers = h.headers,
                             !.responses = h.responses, !.next = h.next]
  /\ UNCHANGED <<hasSession, session, hits, sessionStore, inflight>>

MwRequestLogger ==
  /\ last.op = "request"
  /\ LET l == requestLogger(last.req)
     IN last' = [last EXCEPT !.op = "requestLogger", !.listeners = l.listeners,
                             !.responses = l.responses, !.next = l.next]
  /\ UNCHANGED <<hasSession, session, hits, sessionStore, inflight>>

\* The response's finish event, emitted once when a response has been sent:
\* every registered listener writes its entry
Finish ==
  /\ last.op = "requestLogger"
  /\ \E statusCode \in {200, 302, 403, 500}, duration \in {0, 10} :
       last' = [last EXCEPT !.op = "finish",
                            !.responses = <<[kind |-> "sent", status |-> statusCode]>>,
                            !.logs = [i \in 1..last.listeners |->
                                        HttpLog(last.req, statusCode, duration)]]
  /\ UNCHANGED <<hasSession, session, hits, sessionStore, inflight>>

NextSec ==
  \/ MwValidateContentType
  \/ MwSecurityHeaders
  \/ MwRequestLogger
  \/ Finish

SpecSec == InitSec /\ [][NextSec]_vars

----------------------------------------------------------------------------
(* The rate limiter as a unit: requests of two clients within windows      *)

\* Requests counted per client beyond max before the model stops counting
Overshoot == 2

LimiterRequest ==
  \E ip \in Clients :
    /\ hits[ip] < rateLimitMax + Overshoot
    /\ LET l == limiter(hits, ip)
       IN /\ hits' = l.hits
          /\ last' = [NoRequest EXCEPT !.op = "limiter",
                                      !.req = HttpReq("GET", <<"/">>, None, ip, None, {}),
                                      !.responses = l.responses, !.logs = l.logs,
                                      !.next = l.next]
    /\ UNCHANGED <<hasSession, session, sessionStore, inflight>>

\* windowMs has passed: the store forgets the hits of the expired windows
WindowExpires ==
  \E expired \in SUBSET Clients :
    /\ \E ip \in expired : hits[ip] > 0
    /\ hits' = [ip \in Clients |-> IF ip \in expired THEN 0 ELSE hits[ip]]
    /\ last' = [NoRequest EXCEPT !.op = "window"]
    /\ UNCHANGED <<hasSession, session, sessionStore, inflight>>

NextLimit ==
  \/ LimiterRequest
  \/ WindowExpires

SpecLimit == Init /\ [][NextLimit]_vars

----------------------------------------------------------------------------
(* The tasks routes on every session of the declared type                  *)

\* req.body of a task form
TaskBodies == {None, Some([title |-> "ab"]), Some([title |-> "Test Task"])}

ReqGetTasks ==
  \E out \in TaskOutcomes :
    Apply("GET /tasks", None, None, out, FALSE, GetTasks(hasSession, session, out))

ReqPostTasksCreate ==
  \E body \in TaskBodies, out \in TaskOutcomes :
    LET res == PostTasksCreate(hasSession, session, body, out)
    IN /\ hasSession' = res.has
       /\ session' = res.s
       /\ last' = [Handled("POST /tasks/create", None, None, out, FALSE, res)
                     EXCEPT !.input = body]
       /\ UNCHANGED <<hits, sessionStore, inflight>>

NextTasks ==
  \/ ReqGetTasks
  \/ ReqGetTasksCreate
  \/ ReqPostTasksCreate

SpecTasks == InitMw /\ [][NextTasks]_vars

----------------------------------------------------------------------------
(* The application on one request: every kind of session, and a client on  *)
(* either side of the limit                                                *)

\* Sessions of the three logical states
AppSessions ==
  { EmptySession,
    [EmptySession EXCEPT !.tempEmail = Some(UserEmail)],
    [EmptySession EXCEPT !.token = Some(TokenA), !.email = Some(UserEmail)] }

\* The limiter's store: no hits yet, or one client with max hits in the window
AppWindows == {NoHits, [NoHits EXCEPT !["10.0.0.1"] = rateLimitMax]}

InitApp ==
  /\ hasSession \in BOOLEAN
  /\ session \in AppSessions
  /\ ~hasSession => session = EmptySession
  /\ hits \in AppWindows
  /\ sessionStore = NoStore
  /\ inflight = {}
  /\ last = NoRequest

AppMethods == {"GET", "POST", "PUT", "PATCH", "DELETE"}

AppPaths ==
  { LoginRoute, ValidateEmailRoute, PasswordRoute, AuthenticateRoute, LogoutRoute,
    BackToEmailRoute, TasksRoute, TasksCreateRoute, UnknownRoute }

TextPlain == <<"t", "e", "x", "t", "/", "p", "l", "a", "i", "n">>

AppContentTypes == {None, Some(ApplicationJson), Some(FormUrlencoded), Some(TextPlain)}

SecretA == <<"k", "1">>

SecretB == <<"k", "2">>

\* The _csrf cookie: none yet, or the secret set by an earlier response
CookieSecrets == {None, Some(SecretA)}

\* A token: none, one made for the cookie's secret, one made for another
CsrfTokens == {None, Some(CsrfToken("a", SecretA)), Some(CsrfToken("a", SecretB))}

\* An email that holds one of the classifier's tokens
DropEmail == <<"d", "r", "o", "p", "@", "x">>

\* The form fields submitted to a path
AppPayloads(path) ==
  IF path = ValidateEmailRoute
    THEN { << <<EmailKey, e>> >> : e \in {UserEmail, DropEmail} }
    ELSE IF path = AuthenticateRoute
      THEN { << <<PasswordKey, GoodPassword>> >> }
      ELSE IF path = TasksCreateRoute
        THEN { << <<TitleKey, <<"a", "b">>>> >> }
        ELSE { <<>> }

\* The token travels in the csrf-token header, in the form (_csrf), or not
\* at all: <<header, form field>>
CsrfCarriers == { c \in CsrfTokens \X CsrfTokens : c[1] = None \/ c[2] = None }

AppRequests ==
  { AppReq("GET", p, ip, None, sec, None, <<>>) :
      p \in AppPaths, ip \in Clients, sec \in CookieSecrets }
  \cup
  UNION { { AppReq(m, p, ip, ct, sec, c[1],
                   pl \o (IF c[2] = None THEN <<>> ELSE << <<CsrfKey, The(c[2])>> >>)) :
              m \in AppMethods \ {"GET"}, ip \in Clients, ct \in AppContentTypes,
              sec \in CookieSecrets, pl \in AppPayloads(p), c \in CsrfCarriers } :
          p \in AppPaths }

\* How the backend settles the call of a route
AppOutcomes(r) ==
  CASE RouteOf(r) = "POST /auth/validate-email" ->
         { Outcome("ok", 200, Data(Some(TRUE), Some(TRUE), None, None, Some(EmailIsValid), None),
                   None, NoError),
           Outcome("response", 500, NoData, None, NoError) }
    [] RouteOf(r) = "POST /auth/authenticate" ->
         { Outcome("ok", 200,
                   Data(None, None, None, Some(TokenA), Some("Authentication successful"), None),
                   None, NoError),
           Outcome("response", Unauthorized, NoData, None, NoError) }
    [] RouteOf(r) = "GET /auth/logout" ->
         { Outcome("ok", 200, Data(None, None, None, None, Some("Logout successful"), None),
                   None, NoError),
           Outcome("noresponse", 0, NoData, None, NoError) }
    [] RouteOf(r) \in {"GET /tasks", "POST /tasks/create"} ->
         { Outcome("ok", 200, Some("tasks"), None, NoError),
           Outcome("response", 400, None, None, NoError) }
    [] OTHER -> {NoOutcome}

AppRequest ==
  /\ last.op = "none"
  /\ \E r \in AppRequests :
       \E out \in AppOutcomes(r) :
         LET res == app(hasSession, session, hits, r, out, FALSE)
         IN /\ hasSession' = res.has
            /\ session' = res.s
            /\ hits' = res.hits
            /\ UNCHANGED <<sessionStore, inflight>>
            /\ last' = [Handled("app", Field(ParseBody(r), EmailKey),
                                Field(ParseBody(r), PasswordKey), out, FALSE, res)
                          EXCEPT !.req = r, !.headers = res.headers,
                                 !.stages = res.stages]

NextApp == AppRequest

SpecApp == InitApp /\ [][NextApp]_vars

----------------------------------------------------------------------------
(* Requests in flight: the handlers of several sessions, suspended at the  *)
(* await of their backend call                                             *)

\* Requests suspended at a backend call at the same time
MaxInflight == 2

OtherEmail == <<"w", "@", "x">>

\* req.body.email of the requests in flight
ConcEmails == {Some(OtherEmail)}

\* Writing the session of one id back to the store
StoreSession_Global(sessions, sid, s) == [x \in DOMAIN sessions |-> s]

StoreSession(sessions, sid, s) == [sessions EXCEPT ![sid] = s]

\* A handler suspended at its await: the route, the session id, the email
\* it will use (req.body.email, or the tempEmail read before the call), the
\* password, and the session object the request holds when it is a copy
Suspended(op, sid, email, password, loaded) ==
  [op |-> op, sid |-> sid, email |-> email, password |-> password, loaded |-> loaded]

\* POST /auth/validate-email gets as far as the backend call
ValidateEmailSuspends(s, email) ==
  redirectIfAuthenticated(TRUE, s).next /\ ~Missing(email)

\* POST /auth/authenticate gets as far as the backend call
AuthenticateSuspends(s, password) ==
  /\ redirectIfAuthenticated(TRUE, s).next
  /\ Truthy(s.tempEmail)
  /\ ~Missing(s.tempEmail)
  /\ ~Missing(password)

\* POST /auth/authenticate after the await, with the email read before it
PostAuthenticateResume(s, email, password, out) ==
  LET r == authenticate(email, password, out)
      logs == <<Log("info", "Processing authentication")>>
  IN IF r.kind = "return"
       THEN Result(TRUE, AuthenticatedSession(s, email, r.data.token),
                   <<Redirect(TasksPath)>>, r.calls,
                   logs \o <<Log("info", "Authentication successful, redirecting to tasks")>>,
                   FALSE, None)
       ELSE Result(TRUE,
                   [s EXCEPT !.errors =
                      Some(<<ErrorEntry(AuthenticateErrorMessage(r.err), "#password")>>)],
                   <<Redirect(PasswordPath)>>, r.calls,
                   logs \o <<Log("error", "Authentication error")>>,
                   FALSE, None)

\* How the backend settles the call of a request in flight
ConcOutcomes(op) ==
  IF op = "POST /auth/validate-email"
    THEN { Outcome("ok", 200, Data(Some(TRUE), Some(TRUE), None, None, Some(EmailIsValid), None),
                   None, NoError),
           Outcome("response", 500, NoData, None, NoError) }
    ELSE { Outcome("ok", 200,
                   Data(None, None, None, Some(TokenA), Some("Authentication successful"), None),
                   None, NoError),
           Outcome("response", Unauthorized, NoData, None, NoError) }

\* The record of a request of session sid: the stored session before and after
ConcHandled(op, sid, email, password, out, before, res) ==
  [NoRequest EXCEPT !.op = op, !.sid = sid, !.email = email, !.password = password,
                    !.out = out, !.preHas = TRUE, !.pre = before,
                    !.postHas = TRUE, !.post = res.s,
                    !.responses = res.responses, !.calls = res.calls,
                    !.logs = res.logs, !.next = res.next]

InitConc ==
  /\ hasSession = FALSE
  /\ session = EmptySession
  /\ hits = NoHits
  /\ last = NoRequest
  /\ sessionStore \in { Store(shared, [sid \in Sids |-> EmptySession]) : shared \in BOOLEAN }
  /\ inflight = {}

\* A validate-email request passes its guard and the local validation and
\* waits for the backend
StartValidateEmail ==
  \E sid \in Sids, email \in ConcEmails :
    LET s == sessionStore.sessions[sid]
    IN /\ Cardinality(inflight) < MaxInflight
       /\ ValidateEmailSuspends(s, email)
       /\ inflight' = inflight \cup
            {Suspended("POST /auth/validate-email", sid, email, None,
                       IF sessionStore.shared THEN EmptySession ELSE s)}
       /\ last' = [NoRequest EXCEPT !.op = "start", !.sid = sid]
       /\ UNCHANGED <<hasSession, session, hits, sessionStore>>

\* An authenticate request reads tempEmail, passes its guard and the local
\* validation and waits for the backend
StartAuthenticate ==
  \E sid \in Sids :
    LET s == sessionStore.sessions[sid]
    IN /\ Cardinality(inflight) < MaxInflight
       /\ AuthenticateSuspends(s, Some(GoodPassword))
       /\ inflight' = inflight \cup
            {Suspended("POST /auth/authenticate", sid, s.tempEmail, Some(GoodPassword),
                       IF sessionStore.shared THEN EmptySession ELSE s)}
       /\ last' = [NoRequest EXCEPT !.op = "start", !.sid = sid]
       /\ UNCHANGED <<hasSession, session, hits, sessionStore>>

\* The backend call of a request in flight settles and its handler runs on
\* to the response
Resume ==
  \E r \in inflight :
    \E out \in ConcOutcomes(r.op) :
      LET before == sessionStore.sessions[r.sid]
          s == IF sessionStore.shared THEN before ELSE r.loaded
          res == IF r.op = "POST /auth/validate-email"
                   THEN PostValidateEmailHandler(TRUE, s, r.email, out)
                   ELSE PostAuthenticateResume(s, r.email, r.password, out)
      IN /\ sessionStore' =
              [sessionStore EXCEPT !.sessions = StoreSession(@, r.sid, res.s)]
         /\ inflight' = inflight \ {r}
         /\ last' = ConcHandled(r.op, r.sid, r.email, r.password, out, before, res)
         /\ UNCHANGED <<hasSession, session, hits>>

\* The requests that are answered without a backend call
Immediate ==
  \E sid \in Sids, op \in {"GET /auth/login", "POST /auth/back-to-email",
                           "POST /auth/validate-email", "POST /auth/authenticate"} :
    LET s == sessionStore.sessions[sid]
        res == CASE op = "GET /auth/login" -> GetLogin(TRUE, s)
                 [] op = "POST /auth/back-to-email" -> PostBackToEmail(TRUE, s)
                 [] op = "POST /auth/validate-email" ->
                      PostValidateEmail(TRUE, s, Some(UserEmail), NoOutcome)
                 [] OTHER -> PostAuthenticate(TRUE, s, Some(GoodPassword), NoOutcome)
    IN /\ op = "POST /auth/validate-email" => ~ValidateEmailSuspends(s, Some(UserEmail))
       /\ op = "POST /auth/authenticate" => ~AuthenticateSuspends(s, Some(GoodPassword))
       /\ sessionStore' =
            [sessionStore EXCEPT !.sessions = StoreSession(@, sid, res.s)]
       /\ last' = ConcHandled(op, sid, None, None, NoOutcome, s, res)
       /\ UNCHANGED <<hasSession, session, hits, inflight>>

NextConc ==
  \/ StartValidateEmail
  \/ StartAuthenticate
  \/ Resume
  \/ Immediate

SpecConc == InitConc /\ [][NextConc]_vars

----------------------------------------------------------------------------
(* Properties                                                              *)

\* The session has no usable token: no session, no token key, or an empty one
NoToken(has, s) == ~has \/ s.token = None \/ s.token = Some(<<>>)

\* C1: for every session, requireAuth redirects to /auth/login without
\* invoking the downstream handler when the session has no token (or there
\* is no session), and invokes the downstream handler without any redirect
\* when a token is present.
C1_RequireAuth ==
  last.op = "requireAuth" =>
    IF NoToken(last.preHas, last.pre)
      THEN last.responses = <<Redirect(LoginPath)>> /\ ~last.next
      ELSE last.responses = <<>> /\ last.next

C1_Witness ==
  /\ last.op = "requireAuth"
  /\ ~last.preHas
  /\ last.responses = <<Redirect(LoginPath)>>
  /\ ~last.next

\* C2: redirectIfAuthenticated is the inverse of requireAuth: on every
\* session exactly one of the two guards calls next(); it redirects to /tasks
\* when a token is present and otherwise calls next() with no redirect.
C2_RedirectIfAuthenticatedInverse ==
  /\ requireAuth(hasSession, session).next # redirectIfAuthenticated(hasSession, session).next
  /\ last.op = "redirectIfAuthenticated" =>
       IF NoToken(last.preHas, last.pre)
         THEN last.responses = <<>> /\ last.next
         ELSE last.responses = <<Redirect(TasksPath)>> /\ ~last.next

C2_Witness ==
  /\ last.op = "redirectIfAuthenticated"
  /\ last.preHas
  /\ last.pre.token = Some(TokenA)
  /\ last.responses = <<Redirect(TasksPath)>>
  /\ ~last.next

\* C3: clearAuth removes token and email, leaves tempEmail and the pending
\* errors as they were, issues no response and always calls next(), also
\* when there is no session.
C3_ClearAuthFrame ==
  last.op = "clearAuth" =>
    /\ last.next
    /\ last.responses = <<>>
    /\ last.postHas = last.preHas
    /\ last.post.token = None
    /\ last.post.email = None
    /\ last.post.tempEmail = last.pre.tempEmail
    /\ last.post.errors = last.pre.errors

C3_Witness ==
  /\ last.op = "clearAuth"
  /\ last.preHas
  /\ last.pre.token = Some(TokenA)
  /\ last.pre.email = Some(UserEmail)
  /\ last.pre.tempEmail = Some(PaddedEmail)
  /\ last.pre.errors # None
  /\ last.post.token = None

\* C4: POST /auth/validate-email from an unauthenticated session, answered
\* by the backend with a success response {valid: true}, stores the submitted
\* email as tempEmail and redirects to /auth/password.
C4_ValidateEmailValidTrue ==
  ( /\ last.op = "POST /auth/validate-email"
    /\ last.preHas
    /\ NoToken(last.preHas, last.pre)
    /\ last.out.kind = "ok"
    /\ last.out.data.valid = Some(TRUE) )
  => /\ last.post.tempEmail = last.email
     /\ last.responses = <<Redirect(PasswordPath)>>

\* C5: POST /auth/authenticate from EMAIL_PENDING, answered by the backend
\* with a success response carrying a token, stores that token, stores the
\* validated email as email, clears tempEmail and redirects to /tasks.
C5_AuthenticateSuccess ==
  ( /\ last.op = "POST /auth/authenticate"
    /\ last.preHas
    /\ Truthy(last.pre.tempEmail)
    /\ NoToken(last.preHas, last.pre)
    /\ last.out.kind = "ok"
    /\ Truthy(last.out.data.token) )
  => /\ last.post.token = last.out.data.token
     /\ last.post.email = last.pre.tempEmail
     /\ last.post.tempEmail = None
     /\ last.responses = <<Redirect(TasksPath)>>

C5_Witness ==
  /\ last.op = "POST /auth/authenticate"
  /\ last.pre.tempEmail = Some(PaddedEmail)
  /\ last.out.kind = "ok"
  /\ last.out.data.token = Some(TokenA)
  /\ session.token = Some(TokenA)
  /\ session.email = Some(PaddedEmail)

\* C6: POST /auth/authenticate answered by the backend with HTTP 401 leaves
\* the token unset, records one pending error anchored to the password field
\* whose text is the invalid-password message (neither the backend's message
\* nor the generic fallback), and redirects to /auth/password.
C6_Authenticate401 ==
  ( /\ last.op = "POST /auth/authenticate"
    /\ last.out.kind = "response"
    /\ last.out.status = 401 )
  => /\ NoToken(last.postHas, last.post)
     /\ last.post.token = last.pre.token
     /\ last.post.errors = Some(<<ErrorEntry(InvalidPassword, "#password")>>)
     /\ InvalidPassword \notin {GenericError, ServiceFallback, BackendMessage, BackendErrorText}
     /\ last.responses = <<Redirect(PasswordPath)>>

C6_Witness ==
  /\ last.op = "POST /auth/authenticate"
  /\ last.out.kind = "response"
  /\ last.out.status = 401
  /\ last.out.data.message = Some(BackendMessage)
  /\ session.errors = Some(<<ErrorEntry(InvalidPassword, "#password")>>)

\* C7: when the backend answers a validate-email or an authenticate call
\* with HTTP 429, the pending error of the session is the fixed
\* too-many-attempts message, whatever message the backend sent and whatever
\* the retry-after header.
C7_RateLimited ==
  ( /\ last.op \in {"POST /auth/validate-email", "POST /auth/authenticate"}
    /\ last.out.kind = "response"
    /\ last.out.status = 429 )
  => IF last.preHas
       THEN /\ last.post.errors =
                 Some(<<ErrorEntry(TooManyAttempts,
                                   IF last.op = "POST /auth/validate-email"
                                     THEN "#email" ELSE "#password")>>)
            /\ TooManyAttempts \notin {GenericError, ServiceFallback, BackendMessage, BackendErrorText}
       ELSE last.post.errors = None

C7_Witness ==
  /\ last.op = "POST /auth/validate-email"
  /\ last.out.kind = "response"
  /\ last.out.status = 429
  /\ last.out.retryAfter = Some("900")
  /\ last.out.data.message = Some(BackendMessage)
  /\ session.errors = Some(<<ErrorEntry(TooManyAttempts, "#email")>>)

\* C8: after any sequence of requests handled one after the other, the
\* session never holds both a tempEmail and a token: a request that sets the
\* token leaves no tempEmail, and a request that sets tempEmail started
\* without a token.
C8_TempEmailTokenExclusive ==
  /\ ~(hasSession /\ Truthy(session.tempEmail) /\ Truthy(session.token))
  /\ (Truthy(last.post.token) /\ last.post.token # last.pre.token)
       => last.post.tempEmail = None
  /\ (Truthy(last.post.tempEmail) /\ last.post.tempEmail # last.pre.tempEmail)
       => NoToken(last.preHas, last.pre)

C8_Witness ==
  /\ last.op = "POST /auth/authenticate"
  /\ Truthy(last.pre.tempEmail)
  /\ Truthy(session.token)
  /\ session.tempEmail = None

\* C9 as stated: without a tempEmail, GET /auth/password and
\* POST /auth/authenticate redirect to /auth/login, call no backend and leave
\* the session unchanged.
C9_Original ==
  ( /\ last.op \in {"GET /auth/password", "POST /auth/authenticate"}
    /\ ~Truthy(SessionTempEmail(last.preHas, last.pre)) )
  => /\ last.responses = <<Redirect(LoginPath)>>
     /\ last.calls = <<>>
     /\ last.postHas = last.preHas
     /\ last.post = last.pre

\* C9 (amended): without a tempEmail, GET /auth/password and
\* POST /auth/authenticate call no backend, leave the session unchanged and
\* answer with one redirect: to /auth/login when the session has no token,
\* to /tasks when it has one.
C9_NoSkippingStepOne ==
  ( /\ last.op \in {"GET /auth/password", "POST /auth/authenticate"}
    /\ ~Truthy(SessionTempEmail(last.preHas, last.pre)) )
  => /\ last.responses =
          <<Redirect(IF NoToken(last.preHas, last.pre) THEN LoginPath ELSE TasksPath)>>
     /\ last.calls = <<>>
     /\ last.postHas = last.preHas
     /\ last.post = last.pre

C9_Witness ==
  /\ last.op = "POST /auth/authenticate"
  /\ last.preHas
  /\ last.pre.tempEmail = None
  /\ last.password = Some(GoodPassword)
  /\ last.responses = <<Redirect(LoginPath)>>
  /\ last.calls = <<>>

\* C10: GET /auth/logout leaves no session (hence neither tempEmail nor
\* token) whatever the remote invalidation did; the backend is called only
\* when the session held a token, with that token; a failed invalidation is
\* logged and surfaces neither as a response other than the redirect to
\* /auth/login nor as an unhandled error.
C10_Logout ==
  last.op = "GET /auth/logout" =>
    /\ ~last.postHas
    /\ last.post = EmptySession
    /\ last.calls # <<>> =>
         /\ ~NoToken(last.preHas, last.pre)
         /\ last.calls = <<Call("/api/auth/logout", None, None, last.pre.token)>>
    /\ NoToken(last.preHas, last.pre) =>
         /\ last.calls = <<>>
         /\ \A i \in DOMAIN last.logs : last.logs[i].msg # "Logout error"
    /\ (~NoToken(last.preHas, last.pre) /\ last.out.kind # "ok") =>
         \E i \in DOMAIN last.logs : last.logs[i] = Log("error", "Logout error")
    /\ last.unhandled = None
    /\ last.preHas => last.responses = <<Redirect(LoginPath)>>
    /\ \A i \in DOMAIN last.responses : last.responses[i] = Redirect(LoginPath)

C10_Witness ==
  /\ last.op = "GET /auth/logout"
  /\ last.pre.token = Some(TokenA)
  /\ last.out.kind = "response"
  /\ last.calls # <<>>
  /\ ~hasSession
  /\ last.responses = <<Redirect(LoginPath)>>

\* A page view: a request that rendered the login page or the password page
IsPageView(r) ==
  /\ r.op \in {"GET /auth/login", "GET /auth/password"}
  /\ r.responses # <<>>
  /\ r.responses[1].kind = "render"

\* C11: pending errors are read-once: a GET /auth/login or GET /auth/password
\* that renders shows exactly the errors pending in the session before it and
\* leaves none pending, so a page view that directly follows another page
\* view shows no errors.
C11_ReadOnce ==
  [][ IsPageView(last') =>
        /\ last'.responses[1].errors = SessionErrors(hasSession, session)
        /\ hasSession' => session'.errors = None
        /\ IsPageView(last) => last'.responses[1].errors = <<>> ]_vars

C11_Witness ==
  /\ last.op = "GET /auth/login"
  /\ last.preHas
  /\ last.pre.errors # None
  /\ last.responses[1].kind = "render"
  /\ last.responses[1].errors = The(last.pre.errors)
  /\ last.responses[1].errors # <<>>
  /\ session.errors = None

\* C12: POST /auth/back-to-email removes tempEmail, redirects to /auth/login,
\* calls no backend, and leaves token, email and the pending errors as they
\* were.
C12_BackToEmail ==
  last.op = "POST /auth/back-to-email" =>
    /\ last.post.tempEmail = None
    /\ last.responses = <<Redirect(LoginPath)>>
    /\ last.calls = <<>>
    /\ last.postHas = last.preHas
    /\ last.post.token = last.pre.token
    /\ last.post.email = last.pre.email
    /\ last.post.errors = last.pre.errors

C12_Witness ==
  /\ last.op = "POST /auth/back-to-email"
  /\ last.preHas
  /\ last.pre.tempEmail = Some(UserEmail)
  /\ last.pre.errors # None
  /\ session.tempEmail = None
  /\ session.errors = last.pre.errors

\* C13: while the session holds a token, GET /auth/login,
\* POST /auth/validate-email, GET /auth/password and POST /auth/authenticate
\* answer with one redirect to /tasks, call no backend and leave the session
\* unchanged.
C13_AuthenticatedGuard ==
  ( /\ last.op \in {"GET /auth/login", "POST /auth/validate-email",
                    "GET /auth/password", "POST /auth/authenticate"}
    /\ ~NoToken(last.preHas, last.pre) )
  => /\ last.responses = <<Redirect(TasksPath)>>
     /\ last.calls = <<>>
     /\ last.postHas = last.preHas
     /\ last.post = last.pre

C13_Witness ==
  /\ last.op = "POST /auth/validate-email"
  /\ last.pre.token = Some(TokenA)
  /\ last.email = Some(UserEmail)
  /\ last.responses = <<Redirect(TasksPath)>>
  /\ last.calls = <<>>
  /\ session = last.pre

\* An argument that is missing, empty or made of spaces only
Blank(o) == o = None \/ \A i \in DOMAIN The(o) : The(o)[i] = " "

\* C14: validateEmail, authenticate and logout throw their local 'required'
\* error and make no network call when a required argument is missing, empty
\* or whitespace-only; authenticate checks the email before the password.
C14_LocalValidation ==
  /\ (last.op \in {"validateEmail", "authenticate"} /\ Blank(last.email))
       => last.settled = Thrown(PlainError(EmailRequired), <<>>)
  /\ (last.op = "authenticate" /\ ~Blank(last.email) /\ Blank(last.password))
       => last.settled = Thrown(PlainError(PasswordRequired), <<>>)
  /\ (last.op = "logout" /\ Blank(last.token))
       => last.settled = Thrown(PlainError(TokenRequired), <<>>)

C14_Witness ==
  /\ last.op = "authenticate"
  /\ last.email = Some(BlankStr)
  /\ last.password = None
  /\ last.settled.kind = "throw"
  /\ last.settled.err.message = Some(EmailRequired)
  /\ last.calls = <<>>

\* The message of a remote authentication error: the backend's message, else
\* its error field, else the generic fallback
RemoteMessage(d) ==
  IF d.message \notin {None, Some("")} THEN d.message
  ELSE IF d.error \notin {None, Some("")} THEN d.error
  ELSE Some(ServiceFallback)

Sanitized == last.op \in {"sanitizeInput", "sanitizeInput twice"}

\* The string contains the literal w, in any casing
Contains(s, w) == \E i \in 1..Len(s) : MatchesAt(s, i, w)

\* The string contains a match of on<word>=, in any casing
HasEventHandler(s) == \E i \in 1..Len(s) : EventHandlerLen(s, i) > 0

HasBracket(s) == \E i \in 1..Len(s) : s[i] \in {"<", ">"}

\* C16: for every input, the output of sanitizeInput contains neither '<'
\* nor '>'.
C16_NoAngleBrackets ==
  Sanitized => ~HasBracket(last.output)

C16_Witness ==
  /\ last.op = "sanitizeInput"
  /\ Contains(last.input, <<"<">>)
  /\ Contains(last.input, <<">">>)
  /\ last.output = <<"a">>

\* C17: for every input that contains 'javascript:' in any casing, the
\* output of sanitizeInput does not contain 'javascript:' in any casing.
C17_NoJavascriptProtocol ==
  (Sanitized /\ Contains(last.input, JavascriptColon))
    => ~Contains(last.output, JavascriptColon)

\* C18: for every input that matches on<word>= in any casing, the output of
\* sanitizeInput contains no match of that pattern.
C18_NoEventHandler ==
  (Sanitized /\ HasEventHandler(last.input)) => ~HasEventHandler(last.output)

\* C19: sanitizing twice gives the same string as sanitizing once, for every
\* input whose once-sanitized output contains none of the deleted patterns.
C19_Idempotent ==
  ( /\ last.op = "sanitizeInput twice"
    /\ ~HasBracket(last.output)
    /\ ~Contains(last.output, JavascriptColon)
    /\ ~HasEventHandler(last.output) )
  => last.output2 = last.output

C19_Witness ==
  /\ last.op = "sanitizeInput twice"
  /\ last.input = <<" ", " ", "a">>
  /\ last.output = <<"a">>
  /\ last.output2 = <<"a">>

\* The tokens the classifier lists
SuspiciousTokens == PathTraversal \cup SqlInjection \cup XssAttempts

\* C20: detectSuspiciousActivity answers 403 and does not call next() exactly
\* when path, serialized query and serialized body, concatenated, contain one
\* of the listed tokens as a case-insensitive substring (so prose containing
\* 'select' is blocked); otherwise it calls next() and sends no response.
C20_SuspiciousActivity ==
  last.op = "detectSuspiciousActivity" =>
    LET checkString == last.req.path \o Stringify(last.req.query) \o Stringify(last.req.body)
    IN IF \E w \in SuspiciousTokens : Contains(checkString, w)
         THEN /\ last.responses = <<Forbidden>>
              /\ last.responses[1].status = 403
              /\ ~last.next
         ELSE /\ last.responses = <<>>
              /\ last.next

C20_Witness ==
  /\ last.op = "detectSuspiciousActivity"
  /\ last.req.path = <<"/", "t", "a", "s", "k", "s">>
  /\ last.req.query = Some(<<>>)
  /\ last.req.body # None
  /\ Len(The(last.req.body)) = 1
  /\ Contains(The(last.req.body)[1][2], <<" ", "s", "e", "l", "e", "c", "t", " ">>)
  /\ last.responses = <<Forbidden>>
  /\ ~last.next

\* The pattern source the classifier logged for the request
Reported == last.logs[1].pattern

\* C21: the classifier tests path traversal, then SQL indicators, then XSS,
\* and logs the source of the first family that matches: the traversal path
\* is reported as path traversal, the DROP TABLE body as a SQL indicator and
\* the <script> query as XSS.
C21_FirstFamilyReported ==
  (last.op = "detectSuspiciousActivity" /\ ~last.next) =>
    /\ \E n \in 1..3 :
         /\ Reported = patternSource[n]
         /\ PatternTest(suspiciousPatterns[n], CheckString(last.req))
         /\ \A m \in 1..(n - 1) : ~PatternTest(suspiciousPatterns[m], CheckString(last.req))
    /\ last.req = TraversalExample => Reported = patternSource[1]
    /\ last.req = SqlExample => Reported = patternSource[2]
    /\ last.req = XssExample => Reported = patternSource[3]

\* The part of C21 that holds: order, first match, and the first two examples
C21_OrderOnly ==
  (last.op = "detectSuspiciousActivity" /\ ~last.next) =>
    /\ \E n \in 1..3 :
         /\ Reported = patternSource[n]
         /\ PatternTest(suspiciousPatterns[n], CheckString(last.req))
         /\ \A m \in 1..(n - 1) : ~PatternTest(suspiciousPatterns[m], CheckString(last.req))
    /\ last.req = TraversalExample => Reported = patternSource[1]
    /\ last.req = SqlExample => Reported = patternSource[2]
    /\ last.req = XssExample => Reported = patternSource[2]

\* The header value names one of the three allowed types (as a substring)
AllowedType(ct) ==
  \E type \in {ApplicationJson, FormUrlencoded, MultipartFormData} :
    \E i \in 1..Len(ct) :
      /\ i + Len(type) - 1 <= Len(ct)
      /\ \A k \in 1..Len(type) : ct[i + k - 1] = type[k]

\* C22: validateContentType has exactly one outcome per request: for POST,
\* PUT and PATCH, 400 without next() when Content-Type is missing, 415
\* without next() when it names none of the three allowed types, next()
\* without a response otherwise; for every other method next() without a
\* response.
C22_ValidateContentType ==
  last.op = "validateContentType" =>
    LET ct == last.req.contentType
    IN /\ last.next <=> last.responses = <<>>
       /\ Len(last.responses) <= 1
       /\ IF last.req.method \in {"POST", "PUT", "PATCH"}
            THEN IF ct \in {None, Some(<<>>)}
                   THEN last.responses = <<JsonStatus(400, "Content-Type header is required")>>
                   ELSE IF ~AllowedType(The(ct))
                     THEN last.responses = <<JsonStatus(415, "Unsupported Media Type")>>
                     ELSE last.next
            ELSE last.next

C22_Witness ==
  /\ last.op = "validateContentType"
  /\ last.req.method = "PATCH"
  /\ last.req.contentType # None
  /\ last.req.contentType # Some(<<>>)
  /\ ~AllowedType(The(last.req.contentType))
  /\ last.responses = <<JsonStatus(415, "Unsupported Media Type")>>
  /\ ~last.next

\* The five headers securityHeaders sets
FiveHeaders ==
  { <<"X-Frame-Options", "DENY">>, <<"X-Content-Type-Options", "nosniff">>,
    <<"X-XSS-Protection", "1; mode=block">>,
    <<"Referrer-Policy", "strict-origin-when-cross-origin">>,
    <<"Permissions-Policy", "geolocation=(), microphone=(), camera=()">> }

\* C23: securityHeaders never blocks: for every request it sets the same
\* five response headers, calls next() and sends no response.
C23_SecurityHeaders ==
  last.op = "securityHeaders" =>
    /\ Cardinality(FiveHeaders) = 5
    /\ FiveHeaders \subseteq last.headers
    /\ \A h \in last.headers : h \in FiveHeaders \/ h \in last.req.resHeaders
    /\ \A h1, h2 \in last.headers : h1[1] = h2[1] => h1 = h2
    /\ last.next
    /\ last.responses = <<>>

C23_Witness ==
  /\ last.op = "securityHeaders"
  /\ last.req.method = "POST"
  /\ last.req.contentType = None
  /\ <<"X-Frame-Options", "SAMEORIGIN">> \in last.req.resHeaders
  /\ <<"X-Frame-Options", "DENY">> \in last.headers
  /\ <<"Permissions-Policy", "geolocation=(), microphone=(), camera=()">> \in last.headers
  /\ last.next

\* C24: with max = 100, a request that is among the first 100 of its client
\* in the current window is admitted (next() called, no response); the 101st
\* is answered 429 and next() is not called.
C24_RateLimit ==
  last.op = "limiter" =>
    LET nth == hits[last.req.ip]
    IN /\ nth >= 1
       /\ nth <= 100 => (last.next /\ last.responses = <<>>)
       /\ nth >= 101 =>
            /\ ~last.next
            /\ Len(last.responses) = 1
            /\ last.responses[1].status = 429

C24_Witness ==
  /\ last.op = "limiter"
  /\ last.req.ip = "10.0.0.1"
  /\ hits["10.0.0.1"] = 101
  /\ hits["10.0.0.2"] = 100
  /\ ~last.next
  /\ last.responses = <<TooManyRequestsPage>>

TasksRequest == last.op \in {"GET /tasks", "POST /tasks/create"}

C29_TaskCreateFailure ==
  ( /\ last.op = "POST /tasks/create"
    /\ last.calls # <<>>
    /\ last.out.kind # "ok" )
  => /\ Len(last.responses) = 1
     /\ last.responses[1].status = 400
     /\ last.responses[1].target = "tasks/manage"
     /\ LET hasData == last.out.kind = "response" /\ last.out.data # None
            d == The(last.out.data)
        IN IF hasData /\ d.validationErrors # None
             THEN /\ last.responses[1].message = TaskValidationError
                  /\ last.responses[1].validationErrors = The(d.validationErrors)
             ELSE IF hasData /\ d.message \notin {None, Some("")}
               THEN last.responses[1].message = The(d.message)
               ELSE last.responses[1].message = TaskDefaultError

C29_Witness ==
  /\ last.op = "POST /tasks/create"
  /\ last.out.kind = "response"
  /\ last.out.status = 500
  /\ last.out.data = Some(TaskErrorData(Some({TitleError}), Some(TaskBusinessRule)))
  /\ last.responses = <<TaskForm(400, TaskValidationError, {TitleError})>>


\* A validate-email or authenticate request that reached its handler and
\* failed: the backend answered with an error status, did not answer, the
\* call could not be made, the service rejected the fields locally, or the
\* backend's validation result was negative.
C30_Failed ==
  /\ last.op \in {"POST /auth/validate-email", "POST /auth/authenticate"}
  /\ NoToken(last.preHas, last.pre)
  /\ \/ last.out.kind \in {"response", "noresponse", "other"}
     \/ /\ last.op = "POST /auth/validate-email"
        /\ Missing(last.email)
     \/ /\ last.op = "POST /auth/authenticate"
        /\ Truthy(SessionTempEmail(last.preHas, last.pre))
        /\ Missing(last.pre.tempEmail) \/ Missing(last.password)
     \/ /\ last.op = "POST /auth/validate-email"
        /\ last.out.kind = "ok"
        /\ ~(IsTrue(last.out.data.success) /\ IsTrue(last.out.data.emailValidated))

\* C30: a validate-email or authenticate request that fails (backend error
\* status, no response, local validation error, negative validation result)
\* changes nothing in the session except the pending errors: tempEmail,
\* token and email keep the values they had before the request.
C30_FailureFrame ==
  C30_Failed
  => /\ last.postHas = last.preHas
     /\ last.post.tempEmail = last.pre.tempEmail
     /\ last.post.token = last.pre.token
     /\ last.post.email = last.pre.email
     /\ last.post = [last.pre EXCEPT !.errors = last.post.errors]
     /\ Truthy(last.post.tempEmail) = Truthy(last.pre.tempEmail)

C30_Witness ==
  /\ C30_Failed
  /\ last.op = "POST /auth/validate-email"
  /\ last.out.kind = "response"
  /\ last.pre.tempEmail = Some(UserEmail)
  /\ session.tempEmail = Some(UserEmail)
  /\ session.errors # None
  /\ session.errors # last.pre.errors


\* The last request went through the application with a method that changes state
AppStateChanging ==
  /\ last.op = "app"
  /\ last.req.method \in {"POST", "PUT", "PATCH", "DELETE"}

\* The request carries, in its header or its form, a token made for the
\* secret of its cookie
CarriesMatchingToken ==
  \E token \in {last.req.headerToken, Field(last.req.payload, CsrfKey)} :
    /\ token # None
    /\ last.req.cookieSecret # None
    /\ \E salt \in {"a", "b"} : The(token) = CsrfToken(salt, The(last.req.cookieSecret))

\* A route handler or the 404 handler ran
ReachedHandler ==
  \E i \in DOMAIN last.stages : last.stages[i] \in {"route", "notFound"}

\* The session is as it was before the request
SessionUntouched ==
  /\ last.postHas = last.preHas
  /\ last.post.tempEmail = last.pre.tempEmail
  /\ last.post.token = last.pre.token
  /\ last.post.email = last.pre.email

\* The limiter answered the request: its client's count exceeds max
LimiterRejected == last.op = "app" /\ hits[last.req.ip] > rateLimitMax

ContentTypeRejected ==
  /\ last.op = "app"
  /\ ~validateContentType(HttpReq(last.req.method, last.req.path, last.req.contentType,
                                  last.req.ip, None, {})).next

\* The classifier would answer the request itself
ClassifierRejected ==
  /\ last.op = "app"
  /\ ~detectSuspiciousActivity(Req(last.req.path, Some(<<>>),
                                   Some(ParseBody(last.req)))).next

\* C26: a request rejected by the rate limiter, the CSRF validation, the
\* content type validation or the classifier is passed to no route handler,
\* so it causes no backend call and no change of the session's tempEmail,
\* token or email.
C26_RejectedNotPassedOn ==
  ( \/ LimiterRejected
    \/ AppStateChanging /\ ~CarriesMatchingToken
    \/ ContentTypeRejected
    \/ ClassifierRejected )
  => /\ ~ReachedHandler
     /\ last.calls = <<>>
     /\ SessionUntouched

\* The 'HTTP Request' entries logged for the last request
HttpRequestEntries == { i \in DOMAIN last.logs : last.logs[i].msg = "HTTP Request" }

\* C27: exactly one request log entry is recorded for every finalized
\* response, whichever step issued it.
C27_OneEntryPerResponse ==
  (last.op = "app" /\ last.responses # <<>>)
  => Cardinality(HttpRequestEntries) = 1

\* The request logger as a unit: it calls next(), issues no response, and
\* the finish of the response adds exactly one entry
C27_LoggerUnit ==
  /\ last.op = "requestLogger" => last.next /\ last.responses = <<>> /\ last.listeners = 1
  /\ last.op = "finish" => Cardinality(HttpRequestEntries) = last.listeners


\* The anchor of the errors a route records
AnchorOf(op) == IF op = "POST /auth/validate-email" THEN "#email" ELSE "#password"

\* Pending errors of exactly one entry with a non-empty text
OneEntry(errors) ==
  /\ errors # None
  /\ Len(The(errors)) = 1
  /\ The(errors)[1].text # ""

\* C31: the pending errors of the session are absent or exactly one entry
\* with a non-empty text; a failed validate-email or authenticate request
\* leaves one entry anchored to its own field, whatever was pending before,
\* and no other request writes an entry.
C31_PendingErrors ==
  /\ session.errors = None \/ OneEntry(session.errors)
  /\ (C30_Failed /\ last.preHas)
     => /\ session.errors = last.post.errors
        /\ OneEntry(session.errors)
        /\ The(session.errors)[1].href = AnchorOf(last.op)
  /\ (last.post.errors # last.pre.errors /\ last.post.errors # None)
     => C30_Failed

C31_Witness ==
  /\ C30_Failed
  /\ last.op = "POST /auth/validate-email"
  /\ OneEntry(last.pre.errors)
  /\ The(last.pre.errors)[1].href = "#password"
  /\ OneEntry(session.errors)
  /\ The(session.errors)[1].href = "#email"


\* The backend's authenticate endpoint was called for the last request
AuthenticateCalled ==
  \E i \in DOMAIN last.calls : last.calls[i].endpoint = "/api/auth/authenticate"

\* The last request was a validate-email request the backend confirmed
ValidationSucceeded ==
  /\ last.op = "POST /auth/validate-email"
  /\ last.out.kind = "ok"
  /\ IsTrue(last.out.data.success)
  /\ IsTrue(last.out.data.emailValidated)

\* C32: a token is set only by an authenticate request that found a
\* tempEmail in the session, the authenticate endpoint is called only for
\* such a request, and a tempEmail enters a session only by a validate-email
\* request the backend confirmed; a session starts without one, so every
\* authenticate call and every token follows a successful validation in the
\* same session.
C32_ValidationFirst ==
  /\ (last.post.token # last.pre.token /\ last.post.token # None)
     => /\ last.op = "POST /auth/authenticate"
        /\ Truthy(last.pre.tempEmail)
  /\ AuthenticateCalled
     => /\ last.op = "POST /auth/authenticate"
        /\ Truthy(last.pre.tempEmail)
  /\ (last.post.tempEmail # last.pre.tempEmail /\ last.post.tempEmail # None)
     => ValidationSucceeded
  /\ last.op \in {"none", "session"} => session.tempEmail = None /\ session.token = None

C32_Witness ==
  /\ last.op = "POST /auth/authenticate"
  /\ AuthenticateCalled
  /\ last.pre.tempEmail = Some(UserEmail)
  /\ last.pre.token = None
  /\ session.token = Some(TokenA)


\* C33: every request to /auth/validate-email, /auth/authenticate and
\* /auth/logout gets exactly one response, a redirect, for every outcome of
\* the backend call, and for logout with or without a session and with or
\* without a destruction error.
C33_OneRedirect ==
  last.op \in {"POST /auth/validate-email", "POST /auth/authenticate", "GET /auth/logout"}
  => /\ Len(last.responses) = 1
     /\ last.responses[1].kind = "redirect"


C36_EmailIffToken ==
  hasSession => (session.email # None <=> session.token # None)


\* C37: every response the application sends, whichever step produced it,
\* carries X-Frame-Options: DENY and X-Content-Type-Options: nosniff.
C37_HeadersOnEveryResponse ==
  (last.op = "app" /\ last.responses # <<>>)
  => /\ <<"X-Frame-Options", "DENY">> \in last.headers
     /\ <<"X-Content-Type-Options", "nosniff">> \in last.headers


\* C38: the page of the email step shows only errors anchored to the email
\* field.
C38_LoginShowsEmailErrors ==
  last.op = "GET /auth/login"
  => \A i \in DOMAIN last.responses :
       \A k \in DOMAIN last.responses[i].errors :
         last.responses[i].errors[k].href = "#email"


\* C39 as stated: the email sent to the authenticate endpoint and the email
\* stored in the session are the tempEmail of the session.
C39_Original ==
  /\ AuthenticateCalled
     => \A i \in DOMAIN last.calls : last.calls[i].email = last.pre.tempEmail
  /\ (last.post.email # last.pre.email /\ last.post.email # None)
     => last.post.email = last.pre.tempEmail

\* C39: the email sent to the authenticate endpoint is the tempEmail of the
\* session with surrounding whitespace trimmed, the email stored with the
\* token is that tempEmail as it is, and a tempEmail is what a confirmed
\* validate-email request submitted; the authenticate request supplies the
\* password only.
C39_SessionIdentity ==
  /\ AuthenticateCalled
     => /\ Truthy(last.pre.tempEmail)
        /\ \A i \in DOMAIN last.calls :
             /\ last.calls[i].email = Some(Trim(The(last.pre.tempEmail)))
             /\ last.calls[i].password = last.password
  /\ (last.post.email # last.pre.email /\ last.post.email # None)
     => /\ last.op = "POST /auth/authenticate"
        /\ last.post.email = last.pre.tempEmail
  /\ (last.post.tempEmail # last.pre.tempEmail /\ last.post.tempEmail # None)
     => /\ ValidationSucceeded
        /\ last.post.tempEmail = last.email

C39_Witness ==
  /\ last.op = "POST /auth/authenticate"
  /\ last.pre.tempEmail = Some(PaddedEmail)
  /\ last.calls = <<Call("/api/auth/authenticate", Some(<<"v", "@", "x">>),
                         Some(GoodPassword), None)>>
  /\ session.email = Some(PaddedEmail)
  /\ session.token = Some(TokenA)


\* C40: a well-formed request of the application's own forms passes the
\* classifier: the task form with title, description, status and
\* dueDateTime, and the email form with an ordinary email.
C40_OwnFormsPass ==
  (last.op = "detectSuspiciousActivity" /\ last.req \in {TaskFormExample, EmailFormExample})
  => /\ last.next
     /\ last.responses = <<>>

====
